---- MODULE Spec2Model ----
(***************************************************************************)
(* A model of the remote memory synchronisation engine (RemoteMemorySync,  *)
(* its importer and document builders, and the Azure Cosmos backend).      *)
(***************************************************************************)
EXTENDS Integers, Sequences, FiniteSets, TLC

VARIABLES
  store,         \* the local store of the replica
  remote,        \* the documents of the remote container
  containerRef,  \* the backend holds its container
  stateFile,     \* the replica's state file
  queue,         \* this.queue
  tasks,         \* the unsettled tasks, by slot
  order,         \* the slots of the unsettled tasks in the order of their runTask calls
  intervalRef,   \* the interval timer is set
  initCall,      \* the host's call of initialize()
  closed,        \* close() has been called
  now,           \* the clock reading of the last capture
  failures,      \* the backend failures so far
  replicas,      \* two replicas on one remote: the store and the state file of each
  batch,         \* importer harness: the batch under import
  imports,       \* importer harness: the imports of the batch so far
  importCount,   \* importer harness: the count the last import returned
  storeBefore,   \* importer harness: the store before the last import
  configs,       \* the backend configurations the host has run an engine with, in order
  created        \* what createFromSettings has returned, with the settings, per call

vars == <<store, remote, containerRef, stateFile, queue, tasks, order, intervalRef,
          initCall, closed, now, failures, replicas, batch, imports, importCount, storeBefore,
          configs, created>>

harnessVars == <<replicas, batch, imports, importCount, storeBefore, configs, created>>

(***************************************************************************)
(* Program constants and the bounds of the model.                          *)
(***************************************************************************)
STATE_VERSION == 1
LOCAL_INCREMENTAL_OVERLAP_MS == 5000
REMOTE_INCREMENTAL_OVERLAP_MS == 5000
syncIntervalMs == 30000

MaxQueue == 2      \* unsettled tasks at any time
MaxRecords == 2    \* rows the host captures
MaxTicks == 3      \* the clock stops at MaxTicks * EpochStep
EpochStep == 3000  \* milliseconds between two clock readings
MaxFailures == 1   \* backend operations that fail
MaxBatch == 2      \* documents of an import batch
MaxImports == 2    \* imports of one batch
MaxReplicaRecords == 1  \* rows a replica of the two captures
MaxConfigs == 2     \* configurations the host runs an engine with

(***************************************************************************)
(* JavaScript values.  A string-typed field holds a string or null, a     *)
(* number-typed field a number or null.                                    *)
(***************************************************************************)
Null == "NULL"
NullNum == -1

\* a || b on strings: the empty string and null are falsy
OrStr(a, b) == IF a = Null \/ a = "" THEN b ELSE a
\* a ?? b on strings
CoalesceStr(a, b) == IF a = Null THEN b ELSE a
\* a || b on numbers: 0 and null are falsy
OrNum(a, b) == IF a = NullNum \/ a = 0 THEN b ELSE a
\* a ?? b on numbers
CoalesceNum(a, b) == IF a = NullNum THEN b ELSE a

Max(a, b) == IF a >= b THEN a ELSE b

(***************************************************************************)
(* The local store: four tables, each a sequence of rows in rowid order    *)
(* (rows are only ever appended or updated in place, so a row's id is its  *)
(* position).                                                              *)
(***************************************************************************)
EmptyDb == [sessions |-> <<>>, prompts |-> <<>>, observations |-> <<>>, summaries |-> <<>>]

\* SELECT ... LIMIT 1: the position of the first row satisfying Test, 0 if none
FirstRow(rows, Test(_)) ==
  IF \E i \in 1..Len(rows) : Test(rows[i])
  THEN CHOOSE i \in 1..Len(rows) : Test(rows[i]) /\ \A j \in 1..(i - 1) : ~Test(rows[j])
  ELSE 0

getSessionByContentSessionId(db, contentSessionId) ==
  LET Test(r) == r.content_session_id = contentSessionId
  IN FirstRow(db.sessions, Test)

\* SQL: memory_session_id = ? never matches a NULL column or a NULL parameter
getSessionByMemorySessionId(db, memorySessionId) ==
  LET Test(r) == memorySessionId # Null /\ r.memory_session_id # Null
                 /\ r.memory_session_id = memorySessionId
  IN FirstRow(db.sessions, Test)

(***************************************************************************)
(* Documents and their builders.  A document id is a tuple: the kind and   *)
(* the natural key, or the kind and the payload for the content-addressed  *)
(* kinds (SHA-256 of the serialised payload, taken as injective).          *)
(***************************************************************************)
getSessionStableUpdatedEpoch(session) ==
  Max(session.started_at_epoch, CoalesceNum(session.completed_at_epoch, 0))

\* updatedAtEpoch is NullNum when the caller passes none
buildSessionDocument(session, updatedAtEpoch) ==
  [id |-> <<"session", session.content_session_id>>,
   kind |-> "session",
   sortEpoch |-> session.started_at_epoch,
   updatedAtEpoch |-> CoalesceNum(updatedAtEpoch, getSessionStableUpdatedEpoch(session)),
   payload |-> session]

\* prompt is a row of user_prompts joined with its session's project
buildPromptDocument(prompt) ==
  [id |-> <<"prompt", prompt.content_session_id, prompt.prompt_number>>,
   kind |-> "prompt",
   sortEpoch |-> prompt.created_at_epoch,
   updatedAtEpoch |-> prompt.created_at_epoch,
   payload |-> prompt]

buildHashDocumentId(kind, payload) == <<kind, payload>>

buildObservationDocument(observation) ==
  LET payload == [observation EXCEPT !.discovery_tokens = OrNum(@, 0)]
  IN [id |-> buildHashDocumentId("observation", payload),
      kind |-> "observation",
      sortEpoch |-> observation.created_at_epoch,
      updatedAtEpoch |-> observation.created_at_epoch,
      payload |-> payload]

buildSummaryDocument(summary) ==
  LET payload == [summary EXCEPT !.discovery_tokens = OrNum(@, 0)]
  IN [id |-> buildHashDocumentId("summary", payload),
      kind |-> "summary",
      sortEpoch |-> summary.created_at_epoch,
      updatedAtEpoch |-> summary.created_at_epoch,
      payload |-> payload]

\* documents is the Map of a collector, as the set of its values
addDocument(documents, document) ==
  IF \E e \in documents : e.id = document.id /\ ~(e.updatedAtEpoch <= document.updatedAtEpoch)
  THEN documents
  ELSE {e \in documents : e.id # document.id} \cup {document}

RECURSIVE addDocuments(_, _)
addDocuments(documents, more) ==
  IF more = {} THEN documents
  ELSE LET d == CHOOSE x \in more : \A y \in more : x.updatedAtEpoch <= y.updatedAtEpoch
       IN addDocuments(addDocument(documents, d), more \ {d})

\* localeCompare on the kind prefix of two ids of one epoch; ids of one kind
\* and one epoch are left unordered (the order of two hashes is arbitrary)
KindRank(kind) ==
  CASE kind = "observation" -> 0 [] kind = "prompt" -> 1
    [] kind = "session" -> 2 [] kind = "summary" -> 3

\* the comparator of sortDocuments: left is sent before right
sortsBefore(left, right) ==
  \/ left.updatedAtEpoch < right.updatedAtEpoch
  \/ /\ left.updatedAtEpoch = right.updatedAtEpoch
     /\ KindRank(left.kind) < KindRank(right.kind)

getMaxUpdatedEpochFirst(documents) ==
  IF documents = {} THEN 0
  ELSE (CHOOSE d \in documents : \A e \in documents : d.updatedAtEpoch <= e.updatedAtEpoch).updatedAtEpoch

getMaxUpdatedEpoch(documents) ==
  IF documents = {} THEN 0
  ELSE Max(0, (CHOOSE d \in documents :
                 \A e \in documents : e.updatedAtEpoch <= d.updatedAtEpoch).updatedAtEpoch)

(***************************************************************************)
(* The local readers: rows as the document builders take them.             *)
(***************************************************************************)
\* user_prompts LEFT JOIN sdk_sessions: COALESCE(project, '') AS project
promptRow(db, i) ==
  LET p == db.prompts[i]
      s == getSessionByContentSessionId(db, p.content_session_id)
  IN [content_session_id |-> p.content_session_id,
      project |-> IF s = 0 THEN "" ELSE CoalesceStr(db.sessions[s].project, ""),
      prompt_number |-> p.prompt_number,
      prompt_text |-> p.prompt_text,
      created_at_epoch |-> p.created_at_epoch]

collectPromptDocuments(db, i) ==
  LET prompt == promptRow(db, i)
      session == getSessionByContentSessionId(db, prompt.content_session_id)
      documents == addDocument({}, buildPromptDocument(prompt))
  IN IF session = 0 THEN documents
     ELSE addDocument(documents,
                      buildSessionDocument(db.sessions[session], prompt.created_at_epoch))

\* collectObservationDocuments without the document of the owning session
collectObservationDocumentsAlone(db, i) ==
  addDocument({}, buildObservationDocument(db.observations[i]))

collectObservationDocuments(db, i) ==
  LET observation == db.observations[i]
      session == getSessionByMemorySessionId(db, observation.memory_session_id)
      documents == addDocument({}, buildObservationDocument(observation))
  IN IF session = 0 THEN documents
     ELSE addDocument(documents,
                      buildSessionDocument(db.sessions[session], observation.created_at_epoch))

collectSummaryDocuments(db, i) ==
  LET summary == db.summaries[i]
      session == getSessionByMemorySessionId(db, summary.memory_session_id)
      documents == addDocument({}, buildSummaryDocument(summary))
  IN IF session = 0 THEN documents
     ELSE addDocument(documents,
                      buildSessionDocument(db.sessions[session], summary.created_at_epoch))

\* the documents of the rows of one table from position i on that satisfy the
\* reader's WHERE clause (created_at_epoch >= sinceEpoch; 0 for a full scan)
RECURSIVE collectRows(_, _, _, _, _, _)
collectRows(db, rows, i, sinceEpoch, Collect(_, _), documents) ==
  IF i > Len(rows) THEN documents
  ELSE collectRows(db, rows, i + 1, sinceEpoch, Collect,
         IF rows[i].created_at_epoch >= sinceEpoch
         THEN addDocuments(documents, Collect(db, i)) ELSE documents)

collectIncrementalDocuments(db, sinceEpoch) ==
  collectRows(db, db.summaries, 1, sinceEpoch, collectSummaryDocuments,
    collectRows(db, db.observations, 1, sinceEpoch, collectObservationDocuments,
      collectRows(db, db.prompts, 1, sinceEpoch, collectPromptDocuments, {})))

RECURSIVE allSessionDocuments(_, _, _)
allSessionDocuments(db, i, documents) ==
  IF i > Len(db.sessions) THEN documents
  ELSE allSessionDocuments(db, i + 1,
         addDocument(documents, buildSessionDocument(db.sessions[i], NullNum)))

\* collectBootstrapDocuments without its loop over getAllSessions
collectBootstrapDocumentsNoSessions(db) == collectIncrementalDocuments(db, 0)

collectBootstrapDocuments(db) ==
  collectRows(db, db.summaries, 1, 0, collectSummaryDocuments,
    collectRows(db, db.observations, 1, 0, collectObservationDocuments,
      collectRows(db, db.prompts, 1, 0, collectPromptDocuments,
        allSessionDocuments(db, 1, {}))))

(***************************************************************************)
(* The importer.                                                           *)
(***************************************************************************)
\* the status of the incoming document, whatever the row has
selectSessionStatusIncoming(currentStatus, incomingStatus) == incomingStatus

selectSessionStatus(currentStatus, incomingStatus) ==
  LET priority(s) == CASE s = "active" -> 0 [] s = "failed" -> 1
                       [] s = "completed" -> 2 [] OTHER -> 0
  IN IF priority(incomingStatus) >= priority(currentStatus)
     THEN incomingStatus ELSE currentStatus

\* resolveImportedMemorySessionId without the lookup of a conflicting row
resolveImportedMemorySessionIdIncoming(db, session, existing) ==
  LET prior == IF existing = 0 THEN Null ELSE db.sessions[existing].memory_session_id
  IN IF session.memory_session_id = Null \/ session.memory_session_id = ""
     THEN prior
     ELSE session.memory_session_id

\* existing is the position of the session's row, 0 when it has none
resolveImportedMemorySessionId(db, session, existing) ==
  LET prior == IF existing = 0 THEN Null ELSE db.sessions[existing].memory_session_id
      Conflict(r) == r.memory_session_id # Null
                     /\ r.memory_session_id = session.memory_session_id
                     /\ r.content_session_id # session.content_session_id
  IN IF session.memory_session_id = Null \/ session.memory_session_id = ""
     THEN prior
     ELSE IF FirstRow(db.sessions, Conflict) # 0 THEN prior
     ELSE session.memory_session_id

\* upsertSession with the UPDATE issued whether or not a field changes
upsertSessionAlways(db, session) ==
  LET existing == getSessionByContentSessionId(db, session.content_session_id)
      resolvedMemorySessionId == resolveImportedMemorySessionId(db, session, existing)
  IN IF existing = 0
     THEN [db |-> [db EXCEPT !.sessions = Append(@,
                     [content_session_id |-> session.content_session_id,
                      memory_session_id |-> resolvedMemorySessionId,
                      project |-> session.project,
                      user_prompt |-> CoalesceStr(session.user_prompt, ""),
                      custom_title |-> session.custom_title,
                      started_at |-> session.started_at,
                      started_at_epoch |-> session.started_at_epoch,
                      completed_at |-> session.completed_at,
                      completed_at_epoch |-> session.completed_at_epoch,
                      status |-> session.status])],
           written |-> TRUE]
     ELSE LET old == db.sessions[existing]
              nextValues ==
                [content_session_id |-> old.content_session_id,
                 memory_session_id |-> resolvedMemorySessionId,
                 project |-> OrStr(session.project, old.project),
                 user_prompt |-> OrStr(session.user_prompt, old.user_prompt),
                 custom_title |-> CoalesceStr(session.custom_title, old.custom_title),
                 started_at |-> OrStr(old.started_at, session.started_at),
                 started_at_epoch |-> OrNum(old.started_at_epoch, session.started_at_epoch),
                 completed_at |-> CoalesceStr(session.completed_at, old.completed_at),
                 completed_at_epoch |-> CoalesceNum(session.completed_at_epoch,
                                                    old.completed_at_epoch),
                 status |-> selectSessionStatus(old.status, session.status)]
          IN [db |-> [db EXCEPT !.sessions[existing] = nextValues], written |-> TRUE]

\* the result of every upsert: the store afterwards and whether a row was written
upsertSession(db, session) ==
  LET existing == getSessionByContentSessionId(db, session.content_session_id)
      resolvedMemorySessionId == resolveImportedMemorySessionId(db, session, existing)
  IN IF existing = 0
     THEN [db |-> [db EXCEPT !.sessions = Append(@,
                     [content_session_id |-> session.content_session_id,
                      memory_session_id |-> resolvedMemorySessionId,
                      project |-> session.project,
                      user_prompt |-> CoalesceStr(session.user_prompt, ""),
                      custom_title |-> session.custom_title,
                      started_at |-> session.started_at,
                      started_at_epoch |-> session.started_at_epoch,
                      completed_at |-> session.completed_at,
                      completed_at_epoch |-> session.completed_at_epoch,
                      status |-> session.status])],
           written |-> TRUE]
     ELSE LET old == db.sessions[existing]
              nextValues ==
                [content_session_id |-> old.content_session_id,
                 memory_session_id |-> resolvedMemorySessionId,
                 project |-> OrStr(session.project, old.project),
                 user_prompt |-> OrStr(session.user_prompt, old.user_prompt),
                 custom_title |-> CoalesceStr(session.custom_title, old.custom_title),
                 started_at |-> OrStr(old.started_at, session.started_at),
                 started_at_epoch |-> OrNum(old.started_at_epoch, session.started_at_epoch),
                 completed_at |-> CoalesceStr(session.completed_at, old.completed_at),
                 completed_at_epoch |-> CoalesceNum(session.completed_at_epoch,
                                                    old.completed_at_epoch),
                 status |-> selectSessionStatus(old.status, session.status)]
          IN IF nextValues = old
             THEN [db |-> db, written |-> FALSE]
             ELSE [db |-> [db EXCEPT !.sessions[existing] = nextValues], written |-> TRUE]

\* the insert of upsertPrompt without the lookup of the row
upsertPromptUnchecked(db, prompt) ==
  IF getSessionByContentSessionId(db, prompt.content_session_id) = 0
  THEN [db |-> db, written |-> FALSE]
  ELSE [db |-> [db EXCEPT !.prompts = Append(@,
                  [content_session_id |-> prompt.content_session_id,
                   prompt_number |-> prompt.prompt_number,
                   prompt_text |-> prompt.prompt_text,
                   created_at_epoch |-> prompt.created_at_epoch])],
        written |-> TRUE]

upsertPrompt(db, prompt) ==
  LET Same(r) == r.content_session_id = prompt.content_session_id
                 /\ r.prompt_number = prompt.prompt_number
  IN IF FirstRow(db.prompts, Same) # 0
     THEN [db |-> db, written |-> FALSE]
     ELSE IF getSessionByContentSessionId(db, prompt.content_session_id) = 0
     THEN [db |-> db, written |-> FALSE]
     ELSE [db |-> [db EXCEPT !.prompts = Append(@,
                     [content_session_id |-> prompt.content_session_id,
                      prompt_number |-> prompt.prompt_number,
                      prompt_text |-> prompt.prompt_text,
                      created_at_epoch |-> prompt.created_at_epoch])],
           written |-> TRUE]

\* upsertObservation without the lookup of the owning session
upsertObservationUnchecked(db, observation) ==
  LET Same(r) == r.memory_session_id = observation.memory_session_id
                 /\ r.created_at_epoch = observation.created_at_epoch
                 /\ r.type = observation.type
                 /\ CoalesceStr(r.title, "") = CoalesceStr(observation.title, "")
                 /\ CoalesceStr(r.narrative, "") = CoalesceStr(observation.narrative, "")
  IN IF FirstRow(db.observations, Same) # 0
     THEN [db |-> db, written |-> FALSE]
     ELSE [db |-> [db EXCEPT !.observations = Append(@,
                     [memory_session_id |-> observation.memory_session_id,
                      project |-> observation.project,
                      text |-> observation.text,
                      type |-> observation.type,
                      title |-> observation.title,
                      narrative |-> observation.narrative,
                      discovery_tokens |-> OrNum(observation.discovery_tokens, 0),
                      created_at_epoch |-> observation.created_at_epoch])],
           written |-> TRUE]

\* text stands for the columns the importer copies verbatim and never reads
\* (text, subtitle, facts, concepts, files_read, files_modified, prompt_number, created_at)
upsertObservation(db, observation) ==
  LET Same(r) == r.memory_session_id = observation.memory_session_id
                 /\ r.created_at_epoch = observation.created_at_epoch
                 /\ r.type = observation.type
                 /\ CoalesceStr(r.title, "") = CoalesceStr(observation.title, "")
                 /\ CoalesceStr(r.narrative, "") = CoalesceStr(observation.narrative, "")
  IN IF getSessionByMemorySessionId(db, observation.memory_session_id) = 0
     THEN [db |-> db, written |-> FALSE]
     ELSE IF FirstRow(db.observations, Same) # 0
     THEN [db |-> db, written |-> FALSE]
     ELSE [db |-> [db EXCEPT !.observations = Append(@,
                     [memory_session_id |-> observation.memory_session_id,
                      project |-> observation.project,
                      text |-> observation.text,
                      type |-> observation.type,
                      title |-> observation.title,
                      narrative |-> observation.narrative,
                      discovery_tokens |-> OrNum(observation.discovery_tokens, 0),
                      created_at_epoch |-> observation.created_at_epoch])],
           written |-> TRUE]

\* request stands for the columns the importer copies verbatim and never reads
\* (request, investigated, learned, completed, next_steps, files_read, files_edited,
\* notes, created_at)
upsertSummary(db, summary) ==
  LET Same(r) == r.memory_session_id = summary.memory_session_id
                 /\ r.created_at_epoch = summary.created_at_epoch
                 /\ CoalesceNum(r.prompt_number, -1) = CoalesceNum(summary.prompt_number, -1)
  IN IF getSessionByMemorySessionId(db, summary.memory_session_id) = 0
     THEN [db |-> db, written |-> FALSE]
     ELSE IF FirstRow(db.summaries, Same) # 0
     THEN [db |-> db, written |-> FALSE]
     ELSE [db |-> [db EXCEPT !.summaries = Append(@,
                     [memory_session_id |-> summary.memory_session_id,
                      project |-> summary.project,
                      request |-> summary.request,
                      prompt_number |-> summary.prompt_number,
                      discovery_tokens |-> OrNum(summary.discovery_tokens, 0),
                      created_at_epoch |-> summary.created_at_epoch])],
           written |-> TRUE]

upsertDocument(db, document) ==
  CASE document.kind = "session" -> upsertSession(db, document.payload)
    [] document.kind = "prompt" -> upsertPrompt(db, document.payload)
    [] document.kind = "observation" -> upsertObservation(db, document.payload)
    [] document.kind = "summary" -> upsertSummary(db, document.payload)

OfKind(documents, kind) ==
  LET Keep(d) == d.kind = kind IN SelectSeq(documents, Keep)

\* the documents by kind with the sessions last
orderedDocumentsSessionsLast(documents) ==
  OfKind(documents, "prompt") \o OfKind(documents, "observation")
    \o OfKind(documents, "summary") \o OfKind(documents, "session")

\* the documents in the order of the fetch, sessions not first
orderedDocumentsAsFetched(documents) == documents

orderedDocuments(documents) ==
  OfKind(documents, "session") \o OfKind(documents, "prompt")
    \o OfKind(documents, "observation") \o OfKind(documents, "summary")

RECURSIVE importTransaction(_, _, _)
importTransaction(db, documents, importedCount) ==
  IF documents = <<>>
  THEN [db |-> db, importedCount |-> importedCount]
  ELSE LET r == upsertDocument(db, Head(documents))
       IN importTransaction(r.db, Tail(documents),
                            importedCount + (IF r.written THEN 1 ELSE 0))

importRemoteDocuments(db, documents) ==
  importTransaction(db, orderedDocuments(documents), 0)

(***************************************************************************)
(* The state file and the target state of the engine's backend.            *)
(***************************************************************************)
\* AzureCosmosRemoteStoreConfig: connectionString and endpoint are null or the
\* account they name (a connection string carries its account's endpoint)
createCosmosClient(config) ==
  IF config.connectionString # Null /\ config.connectionString # ""
  THEN [throws |-> FALSE, account |-> config.connectionString]
  ELSE IF config.endpoint # Null /\ config.endpoint # ""
          /\ config.key # Null /\ config.key # ""
  THEN [throws |-> FALSE, account |-> config.endpoint]
  ELSE [throws |-> TRUE, account |-> Null]

\* the constructor's fingerprint: SHA-256 of the serialised object, taken as
\* injective
createTargetFingerprint(config) ==
  <<"azure-cosmos", OrStr(config.endpoint, "(connection-string)"),
    config.database, config.container>>

\* new AzureCosmosRemoteStore(config)
AzureCosmosRemoteStore(config) ==
  [throws |-> createCosmosClient(config).throws,
   account |-> createCosmosClient(config).account,
   targetFingerprint |-> createTargetFingerprint(config)]

\* the configuration of the engine's backend
HostConfig ==
  [connectionString |-> Null, endpoint |-> "A", key |-> "k",
   database |-> "claude-mem", container |-> "memory-records"]

targetFingerprint == AzureCosmosRemoteStore(HostConfig).targetFingerprint

ZeroState == [bootstrapComplete |-> FALSE, lastLocalPushEpoch |-> 0, lastPullEpoch |-> 0]

\* The file at statePath.  form tells what a read finds: no file ("missing"),
\* a file readFileSync fails on ("unreadable"), text JSON.parse fails on
\* ("unparsable"), an object without targets ("noTargets"), or an object with
\* its version and targets ("object").
EmptyStateFile ==
  [form |-> "object", version |-> STATE_VERSION, targets |-> [f \in {} |-> ZeroState]]

\* loadStateFile without the comparison of the version
loadStateFileAnyVersion(file) ==
  IF file.form # "object" THEN EmptyStateFile ELSE file

loadStateFile(file) ==
  IF file.form \in {"missing", "unreadable", "unparsable"} THEN EmptyStateFile
  ELSE IF file.version # STATE_VERSION \/ file.form = "noTargets" THEN EmptyStateFile
  ELSE file

\* loadTargetState of an engine whose backend has the fingerprint
loadTargetStateFor(file, fingerprint) ==
  LET fileState == loadStateFile(file)
  IN IF fingerprint \in DOMAIN fileState.targets
     THEN fileState.targets[fingerprint] ELSE ZeroState

\* saveTargetState that writes a file of the engine's own entry alone
saveTargetStateForAlone(file, fingerprint, targetState) ==
  [form |-> "object", version |-> STATE_VERSION,
   targets |-> [f \in {fingerprint} |-> targetState]]

\* saveTargetState of an engine whose backend has the fingerprint, saveStateFile
\* included: the file written is the object serialised
saveTargetStateFor(file, fingerprint, targetState) ==
  LET fileState == loadStateFile(file)
  IN [form |-> "object",
      version |-> fileState.version,
      targets |-> [f \in DOMAIN fileState.targets \cup {fingerprint} |->
                     IF f = fingerprint THEN targetState ELSE fileState.targets[f]]]

loadTargetState(file) == loadTargetStateFor(file, targetFingerprint)

saveTargetState(file, targetState) == saveTargetStateFor(file, targetFingerprint, targetState)

\* pushDocuments after the upsert succeeded: the file with the push cursor raised
pushDocumentsSaveOverwrite(file, documents) ==
  saveTargetState(file, [loadTargetState(file) EXCEPT
    !.lastLocalPushEpoch = getMaxUpdatedEpoch(documents),
    !.bootstrapComplete = TRUE])

pushDocumentsSave(file, documents) ==
  saveTargetState(file, [loadTargetState(file) EXCEPT
    !.lastLocalPushEpoch = Max(@, getMaxUpdatedEpoch(documents))])

(***************************************************************************)
(* The task queue.  A promise a task chains on is 0 once fulfilled, -1     *)
(* once rejected, and the slot of the task it waits for while pending.     *)
(***************************************************************************)
Fulfilled == 0
Rejected == -1

\* promise.catch(() => undefined)
catchUndefinedIdentity(promise) == promise

catchUndefined(promise) == IF promise = Rejected THEN Fulfilled ELSE promise

\* the promise a new task chains on: this.queue.catch(() => undefined)
chainOnUnchained(q) == Fulfilled

chainOn(q) == catchUndefined(q)

\* this.queue after runTask: the new task's promise, caught when it settles
nextQueueStale(q, slot) == q

nextQueue(q, slot) == slot

Slots == 1..MaxQueue
FreeSlot == CHOOSE s \in Slots \ DOMAIN tasks : \A u \in Slots \ DOMAIN tasks : s <= u
CanSubmit == Slots \ DOMAIN tasks # {}

\* the rows of a store, by table: rows are appended only, so the counts name them
RowCounts(db) ==
  [sessions |-> Len(db.sessions), prompts |-> Len(db.prompts),
   observations |-> Len(db.observations), summaries |-> Len(db.summaries)]

NewTask(kind, arg) ==
  [kind |-> kind, arg |-> arg, pred |-> chainOn(queue), status |-> "queued", pc |-> "queued",
   state |-> ZeroState, documents |-> {},
   fileBefore |-> EmptyStateFile, rowsBefore |-> RowCounts(EmptyDb), pushed |-> {}, fetched |-> {},
   behindFailure |-> FALSE]

\* runTask(task): the task chains on the queue and becomes the queue
runTask(kind, arg) ==
  /\ CanSubmit
  /\ tasks' = [s \in DOMAIN tasks \cup {FreeSlot} |->
                 IF s = FreeSlot THEN NewTask(kind, arg) ELSE tasks[s]]
  /\ queue' = nextQueue(queue, FreeSlot)
  /\ order' = Append(order, FreeSlot)

IsCycle(kind) == kind \in {"startup", "full"}

\* performSynchronization from the incremental push on, up to its next await
incrementalPhase(task, state) ==
  LET localSince == Max(0, state.lastLocalPushEpoch - LOCAL_INCREMENTAL_OVERLAP_MS)
      incrementalDocuments == collectIncrementalDocuments(store, localSince)
  IN IF incrementalDocuments # {}
     THEN [task EXCEPT !.state = state, !.documents = incrementalDocuments,
                       !.pc = "incrementalPush"]
     ELSE [task EXCEPT !.state = state, !.documents = {}, !.pc = "fetch"]

\* the startup cycle bootstrapping whatever bootstrapComplete says
bootstrapPhaseAgain(task) ==
  LET state == loadTargetState(stateFile)
      bootstrapDocuments == collectBootstrapDocuments(store)
  IN IF task.kind = "startup"
     THEN IF bootstrapDocuments # {}
          THEN [task EXCEPT !.state = state, !.documents = bootstrapDocuments,
                            !.pc = "bootstrapPush"]
          ELSE incrementalPhase(task, [state EXCEPT !.bootstrapComplete = TRUE])
     ELSE incrementalPhase(task, state)

\* performSynchronization after backend.initialize(), up to its next await
bootstrapPhase(task) ==
  LET state == loadTargetState(stateFile)
      bootstrapDocuments == collectBootstrapDocuments(store)
  IN IF task.kind = "startup" /\ ~state.bootstrapComplete
     THEN IF bootstrapDocuments # {}
          THEN [task EXCEPT !.state = state, !.documents = bootstrapDocuments,
                            !.pc = "bootstrapPush"]
          ELSE incrementalPhase(task, [state EXCEPT !.bootstrapComplete = TRUE])
     ELSE incrementalPhase(task, state)

\* the body of an event-driven task up to its await of upsertDocuments
eventTask(task) ==
  LET rows == CASE task.kind = "prompt" -> store.prompts
                [] task.kind = "observation" -> store.observations
                [] task.kind = "summary" -> store.summaries
      documents == CASE task.kind = "prompt" -> collectPromptDocuments(store, task.arg)
                     [] task.kind = "observation" -> collectObservationDocuments(store, task.arg)
                     [] task.kind = "summary" -> collectSummaryDocuments(store, task.arg)
  IN IF task.arg \notin 1..Len(rows)
     THEN [task EXCEPT !.pc = "return"]
     ELSE [task EXCEPT !.documents = documents, !.pc = "eventPush"]

\* the queue's reaction to the settled predecessor: the task's body runs up to
\* its first await; a task chained on a rejected promise is rejected unrun
StartTask(s) ==
  /\ s \in DOMAIN tasks
  /\ tasks[s].status = "queued"
  /\ tasks[s].pred \in {Fulfilled, Rejected}
  /\ LET task == [tasks[s] EXCEPT !.status = "running", !.fileBefore = stateFile,
                                  !.rowsBefore = RowCounts(store)]
     IN /\ tasks' = [tasks EXCEPT ![s] =
             IF tasks[s].pred = Rejected
             THEN [tasks[s] EXCEPT !.status = "skipped", !.pc = "throw"]
             ELSE CASE IsCycle(task.kind) -> [task EXCEPT !.pc = "initialize"]
                    [] task.kind = "flush" -> [task EXCEPT !.pc = "return"]
                    [] task.kind = "close" -> [task EXCEPT !.pc = "close"]
                    [] OTHER -> eventTask(task)]
        /\ containerRef' = IF tasks[s].pred = Fulfilled /\ task.kind = "close"
                           THEN FALSE ELSE containerRef
  /\ UNCHANGED <<store, remote, stateFile, queue, order, intervalRef, initCall, closed,
                 now, failures, harnessVars>>

Awaiting(s, pcs) ==
  /\ s \in DOMAIN tasks
  /\ tasks[s].status = "running"
  /\ tasks[s].pc \in pcs

\* a backend operation fails: the awaiting task's body throws
BackendFails(s) ==
  /\ failures < MaxFailures
  /\ failures' = failures + 1
  /\ tasks' = [tasks EXCEPT ![s].pc = "throw"]

\* backend.initialize() answers
InitializeOk(s) ==
  /\ Awaiting(s, {"initialize"})
  /\ containerRef' = TRUE
  /\ tasks' = [tasks EXCEPT ![s] = bootstrapPhase(tasks[s])]
  /\ UNCHANGED <<store, remote, stateFile, queue, order, intervalRef, initCall, closed,
                 now, failures, harnessVars>>

\* createIfNotExists fails; an initialised backend answers without a request
InitializeFails(s) ==
  /\ Awaiting(s, {"initialize"})
  /\ ~containerRef
  /\ BackendFails(s)
  /\ UNCHANGED <<store, remote, containerRef, stateFile, queue, order, intervalRef, initCall,
                 closed, now, harnessVars>>

\* an insert of every document, whatever the container holds under its id
upsertDocumentsInsert(container, documents) == container \cup documents

\* container.items.upsert of every document, by id
upsertDocuments(container, documents) ==
  {r \in container : \A d \in documents : d.id # r.id} \cup documents

\* backend.upsertDocuments answers, and pushDocuments and its caller go on
UpsertOk(s) ==
  /\ Awaiting(s, {"bootstrapPush", "incrementalPush", "eventPush"})
  /\ containerRef' = TRUE
  /\ remote' = upsertDocuments(remote, tasks[s].documents)
  /\ stateFile' = pushDocumentsSave(stateFile, tasks[s].documents)
  /\ LET task == [tasks[s] EXCEPT !.pushed = @ \cup tasks[s].documents]
         raised == [task.state EXCEPT
                      !.lastLocalPushEpoch = Max(@, getMaxUpdatedEpoch(task.documents))]
     IN tasks' = [tasks EXCEPT ![s] =
          CASE task.pc = "bootstrapPush" ->
                 incrementalPhase(task, [raised EXCEPT !.bootstrapComplete = TRUE])
            [] task.pc = "incrementalPush" ->
                 [task EXCEPT !.state = raised, !.documents = {}, !.pc = "fetch"]
            [] task.pc = "eventPush" ->
                 [task EXCEPT !.documents = {}, !.pc = "return"]]
  /\ UNCHANGED <<store, queue, order, intervalRef, initCall, closed, now, failures, harnessVars>>

\* the batches a failed upsertDocuments has stored: the documents are sent one by
\* one in sorted order, so what is stored is a proper prefix of the sorted batch
sentBeforeFailure(documents) ==
  {sent \in SUBSET documents :
     /\ sent # documents
     /\ \A d \in sent : \A e \in documents : sortsBefore(e, d) => e \in sent}

UpsertFails(s) ==
  /\ Awaiting(s, {"bootstrapPush", "incrementalPush", "eventPush"})
  /\ \E sent \in sentBeforeFailure(tasks[s].documents) :
       /\ remote' = upsertDocuments(remote, sent)
       /\ containerRef' = IF sent = {} THEN containerRef ELSE TRUE
  /\ BackendFails(s)
  /\ UNCHANGED <<store, stateFile, queue, order, intervalRef, initCall, closed, now, harnessVars>>

\* the orders in which a query may return documents, sorted by updatedAtEpoch
RECURSIVE sortedByUpdatedAtEpoch(_)
sortedByUpdatedAtEpoch(documents) ==
  IF documents = {} THEN {<<>>}
  ELSE UNION {{<<d>> \o rest : rest \in sortedByUpdatedAtEpoch(documents \ {d})} :
              d \in {x \in documents : \A y \in documents : x.updatedAtEpoch <= y.updatedAtEpoch}}

fetchDocumentsUpdatedSince(container, sinceEpoch) ==
  sortedByUpdatedAtEpoch({d \in container : d.updatedAtEpoch > sinceEpoch})

\* the pull phase with the cursor raised only when the import wrote a row
FetchOkInserted(s) ==
  /\ Awaiting(s, {"fetch"})
  /\ containerRef' = TRUE
  /\ LET state == tasks[s].state
         remoteSince == Max(0, state.lastPullEpoch - REMOTE_INCREMENTAL_OVERLAP_MS)
     IN \E remoteDocuments \in fetchDocumentsUpdatedSince(remote, remoteSince) :
          LET fetched == {remoteDocuments[i] : i \in 1..Len(remoteDocuments)}
              imported == importRemoteDocuments(store, remoteDocuments)
              pulled == IF imported.importedCount > 0
                        THEN [state EXCEPT !.lastPullEpoch =
                                             Max(@, getMaxUpdatedEpoch(fetched))]
                        ELSE state
          IN /\ store' = IF remoteDocuments # <<>> THEN imported.db ELSE store
             /\ stateFile' = saveTargetState(stateFile, pulled)
             /\ tasks' = [tasks EXCEPT ![s] =
                            [@ EXCEPT !.state = pulled, !.fetched = fetched, !.pc = "return"]]
  /\ UNCHANGED <<remote, queue, order, intervalRef, initCall, closed, now, failures, harnessVars>>

\* backend.fetchDocumentsUpdatedSince answers: import, raise the pull cursor, persist
FetchOk(s) ==
  /\ Awaiting(s, {"fetch"})
  /\ containerRef' = TRUE
  /\ LET state == tasks[s].state
         remoteSince == Max(0, state.lastPullEpoch - REMOTE_INCREMENTAL_OVERLAP_MS)
     IN \E remoteDocuments \in fetchDocumentsUpdatedSince(remote, remoteSince) :
          LET fetched == {remoteDocuments[i] : i \in 1..Len(remoteDocuments)}
              imported == importRemoteDocuments(store, remoteDocuments)
              pulled == IF remoteDocuments # <<>>
                        THEN [state EXCEPT !.lastPullEpoch =
                                             Max(@, getMaxUpdatedEpoch(fetched))]
                        ELSE state
          IN /\ store' = IF remoteDocuments # <<>> THEN imported.db ELSE store
             /\ stateFile' = saveTargetState(stateFile, pulled)
             /\ tasks' = [tasks EXCEPT ![s] =
                            [@ EXCEPT !.state = pulled, !.fetched = fetched, !.pc = "return"]]
  /\ UNCHANGED <<remote, queue, order, intervalRef, initCall, closed, now, failures, harnessVars>>

FetchFails(s) ==
  /\ Awaiting(s, {"fetch"})
  /\ BackendFails(s)
  /\ UNCHANGED <<store, remote, containerRef, stateFile, queue, order, intervalRef, initCall,
                 closed, now, harnessVars>>

\* a transaction that keeps what its function wrote before it threw
rolledBackKept(db, written) == written

\* db.transaction(fn)() when fn throws: the rows fn has written are rolled back
\* and the error is thrown on
rolledBack(db, written) == db

\* the fetch has answered and the upsert of the k-th document of the import
\* throws (a constraint of the schema, a busy database): the transaction is
\* rolled back and the body of the cycle throws before the cursor is raised
ImportFails(s) ==
  /\ Awaiting(s, {"fetch"})
  /\ failures < MaxFailures
  /\ failures' = failures + 1
  /\ containerRef' = TRUE
  /\ LET state == tasks[s].state
         remoteSince == Max(0, state.lastPullEpoch - REMOTE_INCREMENTAL_OVERLAP_MS)
     IN \E remoteDocuments \in fetchDocumentsUpdatedSince(remote, remoteSince) :
          \E k \in 1..Len(remoteDocuments) :
            LET applied == SubSeq(orderedDocuments(remoteDocuments), 1, k - 1)
            IN /\ store' = rolledBack(store, importTransaction(store, applied, 0).db)
               /\ tasks' = [tasks EXCEPT ![s] =
                              [@ EXCEPT !.fetched = {remoteDocuments[i] :
                                                       i \in 1..Len(remoteDocuments)},
                                        !.pc = "throw"]]
  /\ UNCHANGED <<remote, stateFile, queue, order, intervalRef, initCall, closed, now,
                 harnessVars>>

\* backend.close() has answered
CloseOk(s) ==
  /\ Awaiting(s, {"close"})
  /\ tasks' = [tasks EXCEPT ![s].pc = "return"]
  /\ UNCHANGED <<store, remote, containerRef, stateFile, queue, order, intervalRef, initCall,
                 closed, now, failures, harnessVars>>

\* the unsettled tasks runTask was called for before the task of slot s
SubmittedBefore(s) ==
  {order[i] : i \in {j \in 1..Len(order) : \E k \in (j + 1)..Len(order) : order[k] = s}}

\* the promise of a task settles: the promises chained on it see the outcome, and
\* so does initialize() when it awaits this task
SettleTask(s) ==
  /\ s \in DOMAIN tasks
  /\ tasks[s].pc \in {"return", "throw"}
  /\ LET outcome == IF tasks[s].pc = "return" THEN Fulfilled ELSE Rejected
         caught == catchUndefined(outcome)
     IN /\ tasks' = [u \in DOMAIN tasks \ {s} |->
                       [tasks[u] EXCEPT
                          !.pred = IF @ = s THEN chainOn(caught) ELSE @,
                          !.behindFailure = @ \/ outcome = Rejected]]
        /\ queue' = IF queue = s THEN caught ELSE queue
        /\ order' = SelectSeq(order, LAMBDA u : u # s)
        /\ initCall' = IF initCall.at = "awaiting" /\ initCall.task = s
                       THEN [at |-> IF outcome = Fulfilled THEN "resolved" ELSE "threw",
                             task |-> 0]
                       ELSE initCall
  /\ UNCHANGED <<store, remote, containerRef, stateFile, intervalRef, closed, now, failures,
                 harnessVars>>

\* what the host gets of a task's promise: initialize() awaits the startup cycle
\* in a try block, the schedule* methods attach a catch that logs, and flush()
\* and close() return the task's promise as it is
hostPromise(kind, outcome) ==
  IF kind \in {"flush", "close"} THEN outcome ELSE catchUndefined(outcome)

(***************************************************************************)
(* The host: DatabaseManager and the hooks that capture memory.            *)
(***************************************************************************)
\* initialize(): the startup cycle is queued and awaited
CallInitialize ==
  /\ initCall.at = "none"
  /\ ~closed
  /\ runTask("startup", 0)
  /\ initCall' = [at |-> "awaiting", task |-> FreeSlot]
  /\ UNCHANGED <<store, remote, containerRef, stateFile, intervalRef, closed, now, failures, harnessVars>>

startBackgroundSync(ref) ==
  IF ref \/ syncIntervalMs <= 0 THEN ref ELSE TRUE

\* initialize() after its await: the timer is started, or the error is caught
InitializeResumes ==
  /\ initCall.at \in {"resolved", "threw"}
  /\ intervalRef' = IF initCall.at = "resolved" THEN startBackgroundSync(intervalRef)
                    ELSE intervalRef
  /\ initCall' = [at |-> IF initCall.at = "resolved" THEN "started" ELSE "caught", task |-> 0]
  /\ UNCHANGED <<store, remote, containerRef, stateFile, queue, tasks, order, closed, now,
                 failures, harnessVars>>

\* the interval timer fires: scheduleFullSync(store, 'interval')
IntervalFires ==
  /\ intervalRef
  /\ runTask("full", 0)
  /\ UNCHANGED <<store, remote, containerRef, stateFile, intervalRef, initCall, closed, now,
                 failures, harnessVars>>

CallFlush ==
  /\ ~closed
  /\ runTask("flush", 0)
  /\ UNCHANGED <<store, remote, containerRef, stateFile, intervalRef, initCall, closed, now,
                 failures, harnessVars>>

\* close(): the timer is cleared and the close task queued
CallClose ==
  /\ ~closed
  /\ closed' = TRUE
  /\ intervalRef' = FALSE
  /\ runTask("close", 0)
  /\ UNCHANGED <<store, remote, containerRef, stateFile, initCall, now, failures, harnessVars>>

Captured == Len(store.prompts) + Len(store.observations) + Len(store.summaries)

\* Date.now() of a capture: the clock is read by captures only, and elapsed is
\* the time since the reading before
Elapsed == {e \in {0, EpochStep, 2 * EpochStep} : now + e <= MaxTicks * EpochStep}

\* with schedule, the hook calls schedule*Sync for the new row
ScheduleOrNot(kind, rowId, schedule) ==
  IF schedule THEN runTask(kind, rowId) ELSE UNCHANGED <<queue, tasks, order>>

\* SessionStore.saveUserPrompt, then scheduleUserPromptSync
CapturePrompt(schedule, elapsed) ==
  /\ ~closed
  /\ Captured < MaxRecords
  /\ now' = now + elapsed
  /\ store' = [store EXCEPT !.prompts = Append(@,
                 [content_session_id |-> "c1", prompt_number |-> Len(store.prompts) + 1,
                  prompt_text |-> "hi", created_at_epoch |-> now + elapsed])]
  /\ ScheduleOrNot("prompt", Len(store.prompts) + 1, schedule)
  /\ UNCHANGED <<remote, containerRef, stateFile, intervalRef, initCall, closed,
                 failures, harnessVars>>

\* SessionStore.storeObservation, then scheduleObservationSync
CaptureObservation(schedule, elapsed) ==
  /\ ~closed
  /\ Captured < MaxRecords
  /\ now' = now + elapsed
  /\ store' = [store EXCEPT !.observations = Append(@,
                 [memory_session_id |-> "m1", project |-> "p", text |-> "x",
                  type |-> "discovery", title |-> "T", narrative |-> "N",
                  discovery_tokens |-> 0, created_at_epoch |-> now + elapsed])]
  /\ ScheduleOrNot("observation", Len(store.observations) + 1, schedule)
  /\ UNCHANGED <<remote, containerRef, stateFile, intervalRef, initCall, closed,
                 failures, harnessVars>>

\* SessionStore.storeSummary, then scheduleSummarySync
CaptureSummary(schedule, elapsed) ==
  /\ ~closed
  /\ Captured < MaxRecords
  /\ now' = now + elapsed
  /\ store' = [store EXCEPT !.summaries = Append(@,
                 [memory_session_id |-> "m1", project |-> "p", request |-> "r",
                  prompt_number |-> 1, discovery_tokens |-> 0, created_at_epoch |-> now + elapsed])]
  /\ ScheduleOrNot("summary", Len(store.summaries) + 1, schedule)
  /\ UNCHANGED <<remote, containerRef, stateFile, intervalRef, initCall, closed,
                 failures, harnessVars>>

(***************************************************************************)
(* The engine with its host and its backend.                               *)
(***************************************************************************)
HostSession ==
  [content_session_id |-> "c1", memory_session_id |-> "m1", project |-> "p",
   user_prompt |-> "hi", custom_title |-> Null, started_at |-> "t1",
   started_at_epoch |-> EpochStep, completed_at |-> Null, completed_at_epoch |-> NullNum,
   status |-> "active"]

\* the session of replica r, which the host has created in its store
ReplicaSession(r) ==
  [HostSession EXCEPT !.content_session_id = r,
                      !.memory_session_id = IF r = "c1" THEN "m1" ELSE "m2"]

\* the engine after construction, on the state file and the container it
\* finds: an empty queue, no timer
EngineStart ==
  /\ containerRef = FALSE
  /\ queue = Fulfilled
  /\ tasks = [s \in {} |-> NewTask("flush", 0)]
  /\ order = <<>>
  /\ intervalRef = FALSE
  /\ initCall = [at |-> "none", task |-> 0]
  /\ closed = FALSE
  /\ now = EpochStep
  /\ failures = 0
  /\ configs = <<>>
  /\ created = <<>>
  /\ replicas = [r \in {"c1", "c2"} |->
                   [store |-> [EmptyDb EXCEPT !.sessions = <<ReplicaSession(r)>>],
                    stateFile |-> EmptyStateFile, started |-> FALSE, due |-> FALSE]]

\* the engine after construction on an empty state file and an empty container
EngineInit ==
  /\ stateFile = EmptyStateFile
  /\ remote = {}
  /\ EngineStart

Init ==
  /\ EngineInit
  /\ store = [EmptyDb EXCEPT !.sessions = <<HostSession>>]
  /\ batch = <<>>
  /\ imports = 0
  /\ importCount = 0
  /\ storeBefore = EmptyDb

\* the steps of the tasks in which every backend operation succeeds
SyncStep ==
  \E s \in Slots :
    \/ StartTask(s)
    \/ InitializeOk(s)
    \/ UpsertOk(s)
    \/ FetchOk(s)
    \/ SettleTask(s)

TaskStep ==
  \/ SyncStep
  \/ \E s \in Slots :
       \/ InitializeFails(s)
       \/ UpsertFails(s)
       \/ FetchFails(s)
       \/ CloseOk(s)

Next ==
  \/ TaskStep
  \/ CallInitialize
  \/ InitializeResumes
  \/ IntervalFires
  \/ CallFlush
  \/ CallClose
  \/ \E schedule \in BOOLEAN, elapsed \in Elapsed : CapturePrompt(schedule, elapsed)
  \/ \E schedule \in BOOLEAN, elapsed \in Elapsed : CaptureObservation(schedule, elapsed)
  \/ \E schedule \in BOOLEAN, elapsed \in Elapsed : CaptureSummary(schedule, elapsed)

Spec == Init /\ [][Next]_vars

\* the host of the liveness checks: it starts the engine, captures prompts, flushes
\* and closes
LiveNext ==
  \/ TaskStep
  \/ CallInitialize
  \/ InitializeResumes
  \/ IntervalFires
  \/ CallFlush
  \/ CallClose
  \/ \E schedule \in BOOLEAN, elapsed \in Elapsed : CapturePrompt(schedule, elapsed)

\* ENABLED <<TaskStep>>_vars: a task whose predecessor has settled, or a running one
TaskReady ==
  \E s \in DOMAIN tasks :
    tasks[s].status # "queued" \/ tasks[s].pred \in {Fulfilled, Rejected}

\* ENABLED <<IntervalFires>>_vars
IntervalDue == intervalRef /\ CanSubmit

\* The event loop runs every ready continuation and the backend answers every
\* request (weak fairness of TaskStep and of InitializeResumes), and setInterval
\* keeps firing while the timer is set (strong fairness of IntervalFires: the
\* bound on the queue disables it now and then).  The fairness of TaskStep and
\* IntervalFires is written with their enabling conditions.
FairSpec ==
  /\ Init
  /\ [][LiveNext]_vars
  /\ WF_vars(InitializeResumes)
  /\ ([]<>~TaskReady \/ []<><<TaskStep>>_vars)
  /\ (<>[]~IntervalDue \/ []<><<IntervalFires>>_vars)

(***************************************************************************)
(* The engine driven by the hooks alone: the session has no                *)
(* memory_session_id until the host assigns it, and every row is pushed by *)
(* its own task.                                                           *)
(***************************************************************************)
\* SessionStore.updateMemorySessionId
UpdateMemorySessionId ==
  /\ store.sessions[1].memory_session_id = Null
  /\ store' = [store EXCEPT !.sessions[1].memory_session_id = "m1"]
  /\ UNCHANGED <<remote, containerRef, stateFile, queue, tasks, order, intervalRef, initCall,
                 closed, now, failures, harnessVars>>

EventInit ==
  /\ EngineInit
  /\ store = [EmptyDb EXCEPT !.sessions = <<[HostSession EXCEPT !.memory_session_id = Null]>>]
  /\ batch = <<>>
  /\ imports = 0
  /\ importCount = 0
  /\ storeBefore = EmptyDb

\* the steps of the event-driven tasks and of flush
EventStep ==
  \E s \in Slots :
    \/ StartTask(s)
    \/ UpsertOk(s)
    \/ UpsertFails(s)
    \/ SettleTask(s)

EventNext ==
  \/ EventStep
  \/ UpdateMemorySessionId
  \/ CallFlush
  \/ \E elapsed \in Elapsed : CapturePrompt(TRUE, elapsed)
  \/ \E elapsed \in Elapsed : CaptureObservation(TRUE, elapsed)
  \/ \E elapsed \in Elapsed : CaptureSummary(TRUE, elapsed)

EventSpec == EventInit /\ [][EventNext]_vars

(***************************************************************************)
(* The engine on a state file it finds: missing, damaged, of another       *)
(* version, or holding the entries of other targets, one of which an       *)
(* engine bound to that target keeps saving.                               *)
(***************************************************************************)
OtherConfig == [HostConfig EXCEPT !.container = "c2"]

otherFingerprint == AzureCosmosRemoteStore(OtherConfig).targetFingerprint

\* the cursors of a target that has synchronised up to the epoch
CursorsAt(epoch) ==
  [bootstrapComplete |-> TRUE, lastLocalPushEpoch |-> epoch, lastPullEpoch |-> epoch]

\* the entries a file may hold: of the engine's target, of the other target, of
\* both or of none
TargetEntries ==
  {[f \in fingerprints |-> CursorsAt(EpochStep)] :
     fingerprints \in SUBSET {targetFingerprint, otherFingerprint}}

StateFiles ==
  {[form |-> form, version |-> 0, targets |-> [f \in {} |-> ZeroState]] :
     form \in {"missing", "unreadable", "unparsable"}}
  \cup {[form |-> "noTargets", version |-> STATE_VERSION, targets |-> [f \in {} |-> ZeroState]]}
  \cup {[form |-> "object", version |-> version, targets |-> targets] :
          version \in {STATE_VERSION, STATE_VERSION + 1}, targets \in TargetEntries}

StateFileInit ==
  /\ stateFile \in StateFiles
  /\ remote = {}
  /\ EngineStart
  /\ store = [EmptyDb EXCEPT !.sessions = <<HostSession>>,
                             !.prompts = <<[content_session_id |-> "c1", prompt_number |-> 1,
                                            prompt_text |-> "hi",
                                            created_at_epoch |-> EpochStep]>>]
  /\ batch = <<>>
  /\ imports = 0
  /\ importCount = 0
  /\ storeBefore = EmptyDb

\* a cycle of the engine bound to the other target ends: its saveTargetState
OtherEngineSaves ==
  /\ loadTargetStateFor(stateFile, otherFingerprint).lastPullEpoch < MaxTicks * EpochStep
  /\ stateFile' = saveTargetStateFor(stateFile, otherFingerprint,
                     CursorsAt(loadTargetStateFor(stateFile, otherFingerprint).lastPullEpoch
                               + EpochStep))
  /\ UNCHANGED <<store, remote, containerRef, queue, tasks, order, intervalRef, initCall,
                 closed, now, failures, harnessVars>>

StateFileNext ==
  \/ TaskStep
  \/ CallInitialize
  \/ InitializeResumes
  \/ IntervalFires
  \/ CallClose
  \/ OtherEngineSaves

StateFileSpec == StateFileInit /\ [][StateFileNext]_vars

(***************************************************************************)
(* The engine on a container other replicas have pushed to: the container  *)
(* holds documents the importer inserts, finds already present, or skips.  *)
(***************************************************************************)
\* the documents of other replicas: the prompt the store has, a prompt of a
\* session no replica has pushed, an observation of a memory session no session
\* is bound to, and a session that claims the memory_session_id of the host's
ForeignDocuments ==
  {buildPromptDocument([content_session_id |-> "c1", project |-> "p", prompt_number |-> 1,
                        prompt_text |-> "hi", created_at_epoch |-> EpochStep]),
   buildPromptDocument([content_session_id |-> "c3", project |-> "p", prompt_number |-> 1,
                        prompt_text |-> "hi", created_at_epoch |-> 2 * EpochStep]),
   buildObservationDocument([memory_session_id |-> "m2", project |-> "p", text |-> "x",
                             type |-> "discovery", title |-> "T", narrative |-> "N",
                             discovery_tokens |-> 0, created_at_epoch |-> 3 * EpochStep]),
   buildSessionDocument([HostSession EXCEPT !.content_session_id = "c2",
                                            !.started_at_epoch = 2 * EpochStep], NullNum)}

PullInit ==
  /\ stateFile = EmptyStateFile
  /\ remote \in SUBSET ForeignDocuments
  /\ EngineStart
  /\ store = [EmptyDb EXCEPT !.sessions = <<HostSession>>,
                             !.prompts = <<[content_session_id |-> "c1", prompt_number |-> 1,
                                            prompt_text |-> "hi",
                                            created_at_epoch |-> EpochStep]>>]
  /\ batch = <<>>
  /\ imports = 0
  /\ importCount = 0
  /\ storeBefore = EmptyDb

\* another replica pushes a document between the steps of the engine
ForeignPush ==
  /\ \E d \in ForeignDocuments \ remote : remote' = upsertDocuments(remote, {d})
  /\ UNCHANGED <<store, containerRef, stateFile, queue, tasks, order, intervalRef, initCall,
                 closed, now, failures, harnessVars>>

PullNext ==
  \/ TaskStep
  \/ CallInitialize
  \/ InitializeResumes
  \/ IntervalFires
  \/ CallClose
  \/ ForeignPush

PullSpec == PullInit /\ [][PullNext]_vars

\* the same, with imports that fail
PullFailNext ==
  \/ PullNext
  \/ \E s \in Slots : ImportFails(s)

PullFailSpec == PullInit /\ [][PullFailNext]_vars

(***************************************************************************)
(* The host changes the configuration of the backend: an engine is run     *)
(* with one configuration, then another with the next, on one state file.  *)
(***************************************************************************)
\* the configurations the host may set
Configs ==
  [connectionString : {Null, "A", "B"}, endpoint : {Null, "A", "B"}, key : {Null, "k"},
   database : {"claude-mem", "db2"}, container : {"memory-records", "c2"}]

\* the target a configuration names: the account the client connects to, the
\* database and the container
TargetOf(config) ==
  <<createCosmosClient(config).account, config.database, config.container>>

\* an engine is constructed with the configuration and runs a cycle to its end,
\* which pushes and pulls documents EpochStep newer than its cursors
RunEngine(config) ==
  /\ Len(configs) < MaxConfigs
  /\ ~AzureCosmosRemoteStore(config).throws
  /\ configs' = Append(configs, config)
  /\ LET fingerprint == AzureCosmosRemoteStore(config).targetFingerprint
         state == loadTargetStateFor(stateFile, fingerprint)
     IN stateFile' = saveTargetStateFor(stateFile, fingerprint,
                       [bootstrapComplete |-> TRUE,
                        lastLocalPushEpoch |-> state.lastLocalPushEpoch + EpochStep,
                        lastPullEpoch |-> state.lastPullEpoch + EpochStep])
  /\ UNCHANGED <<store, remote, containerRef, queue, tasks, order, intervalRef, initCall,
                 closed, now, failures, replicas, batch, imports, importCount, storeBefore,
                 created>>

TargetNext == \E config \in Configs : RunEngine(config)

TargetSpec == Init /\ [][TargetNext]_vars

(***************************************************************************)
(* createFromSettings: the engine the host gets from its settings.  The    *)
(* text of a numeric setting is a sequence of characters.                  *)
(***************************************************************************)
MaxSettings == 1

Digits == <<"0", "1", "2", "3", "4", "5", "6", "7", "8", "9">>

IsDigit(c) == \E i \in 1..Len(Digits) : Digits[i] = c

DigitValue(c) == (CHOOSE i \in 1..Len(Digits) : Digits[i] = c) - 1

NaN == [nan |-> TRUE, value |-> 0]

\* the leading white space of a text removed
RECURSIVE TrimStart(_)
TrimStart(text) ==
  IF text # <<>> /\ Head(text) = " " THEN TrimStart(Tail(text)) ELSE text

\* the digits a text starts with
RECURSIVE LeadingDigits(_)
LeadingDigits(text) ==
  IF text # <<>> /\ IsDigit(Head(text))
  THEN <<Head(text)>> \o LeadingDigits(Tail(text))
  ELSE <<>>

\* the number a sequence of digits denotes
RECURSIVE DecimalValue(_)
DecimalValue(digits) ==
  IF digits = <<>> THEN 0
  ELSE 10 * DecimalValue(SubSeq(digits, 1, Len(digits) - 1)) + DigitValue(digits[Len(digits)])

\* the parseInt that ignores what follows the digits
parseIntPrefix(text) ==
  LET trimmed == TrimStart(text)
      signed == trimmed # <<>> /\ Head(trimmed) \in {"+", "-"}
      digits == LeadingDigits(IF signed THEN Tail(trimmed) ELSE trimmed)
  IN IF digits = <<>> THEN NaN
     ELSE [nan |-> FALSE,
           value |-> IF signed /\ Head(trimmed) = "-" THEN 0 - DecimalValue(digits)
                     ELSE DecimalValue(digits)]

\* a parse that takes the whole text or nothing
parseIntWhole(text) ==
  IF text # <<>> /\ LeadingDigits(text) = text
  THEN [nan |-> FALSE, value |-> DecimalValue(text)]
  ELSE NaN

\* Number.parseInt(text, 10): white space is skipped, a sign is taken, then the
\* digits up to the first character that is none; NaN when there is no digit
parseInt(text) == parseIntPrefix(text)

\* a setting is unset or holds a text
Unset == [set |-> FALSE, text |-> <<>>]

Text(text) == [set |-> TRUE, text |-> text]

\* parsePositiveInt(value, fallback): value ?? '' is parsed
parsePositiveInt(value, fallback) ==
  LET parsed == parseInt(IF value.set THEN value.text ELSE <<>>)
  IN IF ~parsed.nan /\ parsed.value > 0 THEN parsed.value ELSE fallback

\* createFromSettings returns null
Disabled == [engine |-> FALSE, syncIntervalMs |-> 0]

createFromSettings(settings) ==
  IF settings.CLAUDE_MEM_REMOTE_DB_ENABLED # "true" THEN Disabled
  ELSE IF OrStr(settings.CLAUDE_MEM_REMOTE_DB_PROVIDER, "azure-cosmos") # "azure-cosmos"
  THEN Disabled
  ELSE LET backend ==
             AzureCosmosRemoteStore(
               [connectionString |-> OrStr(settings.CLAUDE_MEM_AZURE_COSMOS_CONNECTION_STRING, Null),
                endpoint |-> OrStr(settings.CLAUDE_MEM_AZURE_COSMOS_ENDPOINT, Null),
                key |-> OrStr(settings.CLAUDE_MEM_AZURE_COSMOS_KEY, Null),
                database |-> OrStr(settings.CLAUDE_MEM_AZURE_COSMOS_DATABASE, "claude-mem"),
                container |-> OrStr(settings.CLAUDE_MEM_AZURE_COSMOS_CONTAINER, "memory-records")])
       IN IF backend.throws THEN Disabled
          ELSE [engine |-> TRUE,
                syncIntervalMs |->
                  parsePositiveInt(settings.CLAUDE_MEM_REMOTE_DB_SYNC_INTERVAL_MS, 30000)]

\* the texts the host may set the interval to
IntervalTexts ==
  {<<>>, <<"0">>, <<"5", "0">>, <<"-", "5">>, <<"a", "b">>, <<"6", "0", "s">>,
   <<"1", ".", "5">>}

\* the settings the host may have
Settings ==
  [CLAUDE_MEM_REMOTE_DB_ENABLED : {"true", "false", "TRUE", ""},
   CLAUDE_MEM_REMOTE_DB_PROVIDER : {"", "azure-cosmos", "postgres"},
   CLAUDE_MEM_AZURE_COSMOS_CONNECTION_STRING : {"", "A"},
   CLAUDE_MEM_AZURE_COSMOS_ENDPOINT : {"", "A"},
   CLAUDE_MEM_AZURE_COSMOS_KEY : {"", "k"},
   CLAUDE_MEM_AZURE_COSMOS_DATABASE : {""},
   CLAUDE_MEM_AZURE_COSMOS_CONTAINER : {"", "c2"},
   CLAUDE_MEM_REMOTE_DB_SYNC_INTERVAL_MS : {Unset} \cup {Text(text) : text \in IntervalTexts}]

\* the host calls createFromSettings with its settings
CreateFromSettings(settings) ==
  /\ Len(created) < MaxSettings
  /\ created' = Append(created, [settings |-> settings, result |-> createFromSettings(settings)])
  /\ UNCHANGED <<store, remote, containerRef, stateFile, queue, tasks, order, intervalRef,
                 initCall, closed, now, failures, replicas, batch, imports, importCount,
                 storeBefore, configs>>

SettingsNext == \E settings \in Settings : CreateFromSettings(settings)

SettingsSpec == Init /\ [][SettingsNext]_vars

(***************************************************************************)
(* The importer alone: one batch imported into one store, then imported    *)
(* again.                                                                  *)
(***************************************************************************)
SessionRow(contentSessionId, memorySessionId) ==
  [HostSession EXCEPT !.content_session_id = contentSessionId,
                      !.memory_session_id = memorySessionId]

\* the stores an import starts from: session c1, with or without session c2 and
\* with or without a prompt and an observation of c1
InitialStores ==
  {db \in
     {[sessions |-> sessions, prompts |-> prompts, observations |-> observations,
       summaries |-> <<>>] :
        sessions \in {<<SessionRow("c1", m)>> : m \in {Null, "m1"}}
                    \cup {<<SessionRow("c1", "m1"), SessionRow("c2", m)>> : m \in {Null, "m2"}},
        prompts \in {<<>>, <<[content_session_id |-> "c1", prompt_number |-> 1,
                              prompt_text |-> "hi", created_at_epoch |-> EpochStep]>>},
        observations \in {<<>>, <<[memory_session_id |-> "m1", project |-> "p",
                                   text |-> "x", type |-> "discovery", title |-> "T",
                                   narrative |-> "N", discovery_tokens |-> 0,
                                   created_at_epoch |-> EpochStep]>>}} :
     \A i \in 1..Len(db.observations) :
       getSessionByMemorySessionId(db, db.observations[i].memory_session_id) # 0}

\* the documents a fetch may return: sessions c1 and c2 under the memory session
\* ids a replica may have bound them to and with the statuses a session takes,
\* and a prompt, an observation and a summary of either session
DocPool ==
  {buildSessionDocument([SessionRow(c, m) EXCEPT !.status = st], NullNum) :
     c \in {"c1", "c2"}, m \in {Null, "m1", "m2"}, st \in {"active", "completed"}}
  \cup {buildPromptDocument([content_session_id |-> c, project |-> "p", prompt_number |-> 1,
                             prompt_text |-> "hi", created_at_epoch |-> EpochStep]) :
          c \in {"c1", "c2"}}
  \cup {buildObservationDocument([memory_session_id |-> m, project |-> "p", text |-> "x",
                                  type |-> "discovery", title |-> "T", narrative |-> "N",
                                  discovery_tokens |-> 0, created_at_epoch |-> EpochStep]) :
          m \in {"m1", "m2"}}
  \cup {buildSummaryDocument([memory_session_id |-> m, project |-> "p", request |-> "r",
                              prompt_number |-> 1, discovery_tokens |-> 0,
                              created_at_epoch |-> EpochStep]) :
          m \in {"m1", "m2"}}

\* the batches: sequences of up to MaxBatch documents with different ids, as a
\* query of the container returns them
Batches ==
  {b \in UNION {[1..n -> DocPool] : n \in 0..MaxBatch} :
     \A i, j \in 1..Len(b) : i # j => b[i].id # b[j].id}

ImportInit ==
  /\ EngineInit
  /\ store \in InitialStores
  /\ batch \in Batches
  /\ imports = 0
  /\ importCount = 0
  /\ storeBefore = EmptyDb

\* importRemoteDocuments(store.db, batch)
ImportBatch ==
  /\ imports < MaxImports
  /\ LET imported == importRemoteDocuments(store, batch)
     IN /\ store' = imported.db
        /\ importCount' = imported.importedCount
  /\ storeBefore' = store
  /\ imports' = imports + 1
  /\ UNCHANGED <<remote, containerRef, stateFile, queue, tasks, order, intervalRef,
                 initCall, closed, now, failures, replicas, batch, configs, created>>

ImportSpec == ImportInit /\ [][ImportBatch]_vars

\* a later pull: importRemoteDocuments(store.db, documents) of another batch
ImportNext ==
  /\ imports < MaxImports
  /\ \E documents \in Batches \ {batch} :
       LET imported == importRemoteDocuments(store, documents)
       IN /\ store' = imported.db
          /\ importCount' = imported.importedCount
          /\ batch' = documents
  /\ storeBefore' = store
  /\ imports' = imports + 1
  /\ UNCHANGED <<remote, containerRef, stateFile, queue, tasks, order, intervalRef,
                 initCall, closed, now, failures, replicas, configs, created>>

\* a sequence of imports: a batch is imported again, or another batch is
ImportSeqSpec == ImportInit /\ [][ImportBatch \/ ImportNext]_vars

(***************************************************************************)
(* Content-addressed documents: two observation or two summary documents   *)
(* of different content, as one fetch returns them.                        *)
(***************************************************************************)
\* observation and summary documents that differ in the columns of the
\* importer's lookup (memory_session_id, created_at_epoch, title,
\* prompt_number) or only in the columns it copies (text, request)
ContentPool ==
  {buildObservationDocument([memory_session_id |-> m, project |-> "p", text |-> text,
                             type |-> "discovery", title |-> title, narrative |-> "N",
                             discovery_tokens |-> 0, created_at_epoch |-> epoch]) :
     m \in {"m1", "m2"}, text \in {"x", "y"}, title \in {"T", "U"},
     epoch \in {EpochStep, 2 * EpochStep}}
  \cup {buildSummaryDocument([memory_session_id |-> m, project |-> "p", request |-> request,
                              prompt_number |-> number, discovery_tokens |-> 0,
                              created_at_epoch |-> EpochStep]) :
          m \in {"m1", "m2"}, request \in {"r", "s"}, number \in {1, 2}}

\* a fetched batch of two documents of one kind with different ids
ContentPairs ==
  {b \in [1..2 -> ContentPool] : b[1].id # b[2].id /\ b[1].kind = b[2].kind}

\* the stores the pair is imported into: session c1 bound to m1, with or
\* without session c2 bound to m2, and no observation or summary yet
ContentStores ==
  {[EmptyDb EXCEPT !.sessions = sessions] :
     sessions \in {<<SessionRow("c1", "m1")>>,
                   <<SessionRow("c1", "m1"), SessionRow("c2", "m2")>>}}

ContentInit ==
  /\ EngineInit
  /\ store \in ContentStores
  /\ batch \in ContentPairs
  /\ imports = 0
  /\ importCount = 0
  /\ storeBefore = EmptyDb

\* the pair is imported, and imported again by the overlap of the next pull
ContentSpec == ContentInit /\ [][ImportBatch]_vars

(***************************************************************************)
(* The merge of session documents: two documents of session c1, as two     *)
(* pulls fetch them, imported one after the other.                         *)
(***************************************************************************)
Statuses == {"active", "failed", "completed"}

\* the session rows replicas may hold of session c1
SessionVersions ==
  {[HostSession EXCEPT !.memory_session_id = m, !.project = project,
                       !.custom_title = title, !.started_at_epoch = started,
                       !.status = status] :
     m \in {Null, "m1"}, project \in {"p", "q"}, title \in {Null, "t"},
     started \in {EpochStep, 2 * EpochStep}, status \in Statuses}

\* the stores a merge starts from: without session c1, or with it in any status
MergeStores ==
  {EmptyDb} \cup {[EmptyDb EXCEPT !.sessions = <<[HostSession EXCEPT !.status = status]>>] :
                    status \in Statuses}

MergeInit ==
  /\ EngineInit
  /\ store \in MergeStores
  /\ batch \in {<<buildSessionDocument(d1, NullNum), buildSessionDocument(d2, NullNum)>> :
                   d1 \in SessionVersions, d2 \in SessionVersions}
  /\ imports = 0
  /\ importCount = 0
  /\ storeBefore = store

\* a pull fetches the next of the documents: importRemoteDocuments(store.db, [document]);
\* storeBefore stays the store before the first of the imports
MergeStep ==
  /\ imports < Len(batch)
  /\ LET imported == importRemoteDocuments(store, <<batch[imports + 1]>>)
     IN /\ store' = imported.db
        /\ importCount' = imported.importedCount
  /\ imports' = imports + 1
  /\ UNCHANGED <<remote, containerRef, stateFile, queue, tasks, order, intervalRef,
                 initCall, closed, now, failures, replicas, batch, storeBefore, configs,
                 created>>

MergeSpec == MergeInit /\ [][MergeStep]_vars

(***************************************************************************)
(* Two replicas on one remote container.  A replica runs a cycle in one    *)
(* step, every backend operation succeeding; a capture is not pushed by    *)
(* its own task (the replica is offline then), the next cycle pushes it.   *)
(***************************************************************************)
Replicas == {"c1", "c2"}

ReplicaCaptured(r) == Len(SelectSeq(replicas[r].store.prompts,
                                    LAMBDA p : p.content_session_id = r))

\* SessionStore.saveUserPrompt on replica r, in its own session
ReplicaCapture(r, elapsed) ==
  /\ ReplicaCaptured(r) < MaxReplicaRecords
  /\ now' = now + elapsed
  /\ replicas' = [replicas EXCEPT ![r].store.prompts = Append(@,
                    [content_session_id |-> r, prompt_number |-> ReplicaCaptured(r) + 1,
                     prompt_text |-> "hi", created_at_epoch |-> now + elapsed])]
  /\ UNCHANGED <<store, remote, containerRef, stateFile, queue, tasks, order, intervalRef,
                 initCall, closed, failures, batch, imports, importCount, storeBefore,
                 configs, created>>

\* the host of replica r calls initialize(), or the timer of r fires: a cycle is due
ReplicaTimer(r) ==
  /\ ~replicas[r].due
  /\ replicas' = [replicas EXCEPT ![r].due = TRUE]
  /\ UNCHANGED <<store, remote, containerRef, stateFile, queue, tasks, order, intervalRef,
                 initCall, closed, now, failures, batch, imports, importCount, storeBefore,
                 configs, created>>

\* performSynchronization on replica r: its first cycle is the startup cycle of
\* initialize(), the later ones are the timer's
ReplicaCycle(r) ==
  LET replica == replicas[r]
      state == loadTargetState(replica.stateFile)
      bootstrapLocal == ~replica.started
      bootstrap == bootstrapLocal /\ ~state.bootstrapComplete
      bootstrapDocuments == IF bootstrap THEN collectBootstrapDocuments(replica.store) ELSE {}
      bootstrapped ==
        IF bootstrap
        THEN [state EXCEPT !.bootstrapComplete = TRUE,
                           !.lastLocalPushEpoch = Max(@, getMaxUpdatedEpoch(bootstrapDocuments))]
        ELSE state
      bootstrapFile == IF bootstrapDocuments # {}
                       THEN pushDocumentsSave(replica.stateFile, bootstrapDocuments)
                       ELSE replica.stateFile
      localSince == Max(0, bootstrapped.lastLocalPushEpoch - LOCAL_INCREMENTAL_OVERLAP_MS)
      incrementalDocuments == collectIncrementalDocuments(replica.store, localSince)
      pushed ==
        IF incrementalDocuments # {}
        THEN [bootstrapped EXCEPT
                !.lastLocalPushEpoch = Max(@, getMaxUpdatedEpoch(incrementalDocuments))]
        ELSE bootstrapped
      pushedFile == IF incrementalDocuments # {}
                    THEN pushDocumentsSave(bootstrapFile, incrementalDocuments)
                    ELSE bootstrapFile
      container == upsertDocuments(upsertDocuments(remote, bootstrapDocuments),
                                   incrementalDocuments)
      remoteSince == Max(0, pushed.lastPullEpoch - REMOTE_INCREMENTAL_OVERLAP_MS)
  IN /\ replica.due
     /\ remote' = container
     /\ \E remoteDocuments \in fetchDocumentsUpdatedSince(container, remoteSince) :
          LET fetched == {remoteDocuments[i] : i \in 1..Len(remoteDocuments)}
              imported == importRemoteDocuments(replica.store, remoteDocuments)
              pulled == IF remoteDocuments # <<>>
                        THEN [pushed EXCEPT !.lastPullEpoch =
                                              Max(@, getMaxUpdatedEpoch(fetched))]
                        ELSE pushed
          IN replicas' = [replicas EXCEPT ![r] =
               [store |-> IF remoteDocuments # <<>> THEN imported.db ELSE replica.store,
                stateFile |-> saveTargetState(pushedFile, pulled),
                started |-> TRUE, due |-> FALSE]]
     /\ UNCHANGED <<store, containerRef, stateFile, queue, tasks, order, intervalRef,
                    initCall, closed, now, failures, batch, imports, importCount, storeBefore,
                 configs, created>>

ReplicasNext ==
  \E r \in Replicas :
    \/ \E elapsed \in Elapsed : ReplicaCapture(r, elapsed)
    \/ ReplicaTimer(r)
    \/ ReplicaCycle(r)

\* Both replicas keep running cycles: the timer of each fires again and again,
\* and a cycle that is due is run (weak fairness of ReplicaCycle(r), written
\* with its enabling condition).
FairReplicas ==
  /\ Init
  /\ [][ReplicasNext]_vars
  /\ \A r \in Replicas :
       /\ WF_vars(ReplicaTimer(r))
       /\ ([]<>~replicas[r].due \/ []<><<ReplicaCycle(r)>>_vars)

(***************************************************************************)
(* The task queue.                                                         *)
(***************************************************************************)
Running == {s \in DOMAIN tasks : tasks[s].status = "running"}
Queued == {s \in DOMAIN tasks : tasks[s].status = "queued"}
\* the tasks whose body has returned or thrown and whose promise settles next
Finished == {s \in DOMAIN tasks : tasks[s].pc \in {"return", "throw"}}

\* C1: tasks begin executing in the order of their submission, whatever the
\* outcome of earlier tasks: a task has not begun while a task submitted before
\* it has not, and it has not finished while a task submitted before it is unsettled.
C1_TasksStartInSubmissionOrder ==
  \A i, j \in 1..Len(order) :
    i < j => /\ order[j] \notin Queued => order[i] \notin Queued
             /\ order[j] \notin Finished

\* a task has begun after the task before it failed, and another waits behind it
C1_Witness ==
  /\ Len(order) = 2
  /\ order[1] \in Running
  /\ tasks[order[1]].behindFailure
  /\ order[2] \in Queued

\* C2: at every moment at most one task is executing: no task starts while
\* another is suspended in a backend operation.
C2_AtMostOneTaskRuns == Cardinality(DOMAIN tasks \ Queued) <= 1

\* a cycle is suspended in fetchDocumentsUpdatedSince and an event-driven task,
\* scheduled meanwhile, waits
C2_Witness ==
  \E s, u \in DOMAIN tasks :
    /\ tasks[s].pc = "fetch"
    /\ tasks[u].status = "queued"
    /\ tasks[u].kind = "prompt"

\* C3: a failing task does not break the queue: every task submitted is run,
\* also after a task before it failed.
C3_QueueSurvivesFailure ==
  \A s \in Slots : (s \in Queued) ~> (s \in Running)

\* a task pushes after the task before it failed
C3_Witness ==
  \E s \in Running : tasks[s].behindFailure /\ tasks[s].pc = "eventPush"

\* C4: flush() resolves only after every task submitted before it has settled,
\* it resolves also when one of them failed, and it does resolve.
C4_FlushResolvesAfterEarlierTasks ==
  /\ [](\A s \in DOMAIN tasks \ Queued :
          tasks[s].kind = "flush" => tasks[s].pc = "return" /\ SubmittedBefore(s) = {})
  /\ \A s \in Slots :
       (s \in DOMAIN tasks /\ tasks[s].kind = "flush")
         ~> (s \in Finished /\ tasks[s].kind = "flush" /\ tasks[s].pc = "return")

\* a flush submitted behind a task that then failed resolves
C4_Witness ==
  \E s \in Finished :
    tasks[s].kind = "flush" /\ tasks[s].pc = "return" /\ tasks[s].behindFailure

(***************************************************************************)
(* The cursors.  A task in Finished has run its body to the end, so the    *)
(* state file is as the task leaves it.                                    *)
(***************************************************************************)
FailedCycles ==
  {s \in Finished : IsCycle(tasks[s].kind) /\ tasks[s].status = "running"
                     /\ tasks[s].pc = "throw"}
SucceededTasks == {s \in Finished : tasks[s].status = "running" /\ tasks[s].pc = "return"}

CursorsBefore(s) == loadTargetState(tasks[s].fileBefore)
CursorsAfter == loadTargetState(stateFile)

\* C5 as the specification states it: a cycle that a backend failure aborts
\* leaves the persisted target state, and the state file, as they were before it.
C5_FailedCycleLeavesStateUnchanged ==
  \A s \in FailedCycles : stateFile = tasks[s].fileBefore

\* C5: a cycle that a backend failure aborts leaves bootstrapComplete and
\* lastPullEpoch as persisted before it; lastLocalPushEpoch is as before when no
\* push batch of the cycle succeeded (then the file is unchanged), and otherwise
\* it is the larger of its value before and the largest updatedAtEpoch of the
\* batches that succeeded.
C5_FailedCycleRaisesOnlyPushCursor ==
  \A s \in FailedCycles :
    /\ CursorsAfter.bootstrapComplete = CursorsBefore(s).bootstrapComplete
    /\ CursorsAfter.lastPullEpoch = CursorsBefore(s).lastPullEpoch
    /\ CursorsAfter.lastLocalPushEpoch >= CursorsBefore(s).lastLocalPushEpoch
    /\ \A d \in tasks[s].pushed : CursorsAfter.lastLocalPushEpoch >= d.updatedAtEpoch
    /\ \/ CursorsAfter.lastLocalPushEpoch = CursorsBefore(s).lastLocalPushEpoch
       \/ \E d \in tasks[s].pushed : CursorsAfter.lastLocalPushEpoch = d.updatedAtEpoch
    /\ tasks[s].pushed = {} => stateFile = tasks[s].fileBefore

\* a cycle has failed after one of its push batches succeeded, and the file differs
C5_Witness ==
  \E s \in FailedCycles : tasks[s].pushed # {} /\ stateFile # tasks[s].fileBefore

\* C6: after a task that succeeded (a full cycle or an event-driven push) the
\* persisted lastLocalPushEpoch is at least the updatedAtEpoch of every document
\* the task pushed, and the persisted lastPullEpoch at least that of every
\* document it fetched.
C6_CursorsCoverPushedAndPulled ==
  \A s \in SucceededTasks :
    /\ \A d \in tasks[s].pushed : CursorsAfter.lastLocalPushEpoch >= d.updatedAtEpoch
    /\ \A d \in tasks[s].fetched : CursorsAfter.lastPullEpoch >= d.updatedAtEpoch

\* a cycle has succeeded that pushed and fetched documents of different epochs
C6_Witness ==
  \E s \in SucceededTasks :
    /\ IsCycle(tasks[s].kind)
    /\ \E d, e \in tasks[s].pushed : d.updatedAtEpoch < e.updatedAtEpoch
    /\ \E d, e \in tasks[s].fetched : d.updatedAtEpoch < e.updatedAtEpoch

(***************************************************************************)
(* Convergence and retry.                                                  *)
(***************************************************************************)
HasPrompt(db, prompt) ==
  \E i \in 1..Len(db.prompts) :
    /\ db.prompts[i].content_session_id = prompt.content_session_id
    /\ db.prompts[i].prompt_number = prompt.prompt_number

\* every prompt of either replica has its row in the other
Converged ==
  \A r, q \in Replicas :
    \A i \in 1..Len(replicas[r].store.prompts) :
      HasPrompt(replicas[q].store, replicas[r].store.prompts[i])

\* C7: with both replicas running successful cycles again and again, every
\* prompt captured on one replica eventually has its row on the other, and
\* keeps it.
C7_ReplicasConverge == <>[]Converged

\* every local prompt, observation and summary has its document in the remote
AllPushed ==
  /\ \A i \in 1..Len(store.prompts) :
       \E d \in remote : d.id = buildPromptDocument(promptRow(store, i)).id
  /\ \A i \in 1..Len(store.observations) :
       \E d \in remote : d.id = buildObservationDocument(store.observations[i]).id
  /\ \A i \in 1..Len(store.summaries) :
       \E d \in remote : d.id = buildSummaryDocument(store.summaries[i]).id

CycleSucceeded == \E s \in SucceededTasks : IsCycle(tasks[s].kind)

\* C8: when full cycles keep succeeding, every local prompt, observation and
\* summary eventually has its document in the remote store, also one whose
\* event-driven push failed or was never scheduled.
C8_NoRowSkippedForever == []<>CycleSucceeded => <>[]AllPushed

\* C9: after initialize() has caught the failure of the startup cycle, and
\* unless the host closes the engine, the timer eventually runs a full
\* synchronization to its end.
C9_FailedStartupIsRetried ==
  (initCall.at = "caught" /\ ~closed)
    ~> (closed \/ \E s \in SucceededTasks : tasks[s].kind = "full")

(***************************************************************************)
(* The importer.                                                           *)
(***************************************************************************)
\* C10: importing a batch again writes nothing: the second import of the batch
\* returns the count 0 and leaves the local store as the first left it.
C10_SecondImportWritesNothing ==
  imports = 2 => importCount = 0 /\ store = storeBefore

\* the session rows of one content_session_id
SessionRows(db, contentSessionId) ==
  {i \in 1..Len(db.sessions) : db.sessions[i].content_session_id = contentSessionId}

\* the prompt rows of one (content_session_id, prompt_number)
PromptRows(db, contentSessionId, promptNumber) ==
  {i \in 1..Len(db.prompts) : /\ db.prompts[i].content_session_id = contentSessionId
                              /\ db.prompts[i].prompt_number = promptNumber}

\* the prompt documents of the last batch whose row the import had to add: the
\* store had none before and the session is there once the sessions are applied
PromptsToAdd ==
  {i \in 1..Len(batch) :
     /\ batch[i].kind = "prompt"
     /\ PromptRows(storeBefore, batch[i].payload.content_session_id,
                   batch[i].payload.prompt_number) = {}
     /\ SessionRows(store, batch[i].payload.content_session_id) # {}}

\* C11: across a sequence of imports, replays included, the local store holds
\* at most one session row per content_session_id and at most one prompt row
\* per (content_session_id, prompt_number), and an import adds exactly one
\* prompt row for each prompt document that had none: a replayed prompt
\* document adds one row in all.
C11_ImportsKeepKeysUnique ==
  /\ \A i \in 1..Len(store.sessions) :
       SessionRows(store, store.sessions[i].content_session_id) = {i}
  /\ \A i \in 1..Len(store.prompts) :
       PromptRows(store, store.prompts[i].content_session_id,
                  store.prompts[i].prompt_number) = {i}
  /\ imports >= 1 =>
       Len(store.prompts) = Len(storeBefore.prompts) + Cardinality(PromptsToAdd)

\* a prompt document of session c2 has been imported twice, with its session
\* document, and the store has the one row the first import added
C11_Witness ==
  /\ imports = 2
  /\ importCount = 0
  /\ \E i, j \in 1..Len(batch) :
       /\ batch[i].kind = "prompt" /\ batch[i].payload.content_session_id = "c2"
       /\ batch[j].kind = "session" /\ batch[j].payload.content_session_id = "c2"
  /\ Cardinality(PromptRows(store, "c2", 1)) = 1
  /\ store = storeBefore

\* the rows that bind the memory_session_id of an imported session to another
\* content_session_id
ConflictingRows(db, session) ==
  {k \in 1..Len(db.sessions) :
     /\ db.sessions[k].memory_session_id # Null
     /\ db.sessions[k].memory_session_id = session.memory_session_id
     /\ db.sessions[k].content_session_id # session.content_session_id}

SessionDocuments == {i \in 1..Len(batch) : batch[i].kind = "session"}

\* a document other than a session whose owning session the store has, has its row
AppliedAfterSessions(db, document) ==
  CASE document.kind = "prompt" ->
         SessionRows(db, document.payload.content_session_id) # {}
           => PromptRows(db, document.payload.content_session_id,
                         document.payload.prompt_number) # {}
    [] document.kind = "observation" ->
         getSessionByMemorySessionId(db, document.payload.memory_session_id) # 0
           => \E i \in 1..Len(db.observations) :
                /\ db.observations[i].memory_session_id = document.payload.memory_session_id
                /\ db.observations[i].created_at_epoch = document.payload.created_at_epoch
    [] document.kind = "summary" ->
         getSessionByMemorySessionId(db, document.payload.memory_session_id) # 0
           => \E i \in 1..Len(db.summaries) :
                /\ db.summaries[i].memory_session_id = document.payload.memory_session_id
                /\ db.summaries[i].created_at_epoch = document.payload.created_at_epoch
    [] OTHER -> TRUE

\* C12: across a sequence of imports no two session rows share a non-null
\* memory_session_id; applying a session document whose memory_session_id is
\* bound to another content_session_id leaves the rows that bind it as they
\* are and gives the session's row its prior memory_session_id, null if it had
\* no row; and after a batch whose session document met such a conflict the
\* other documents of the batch have been applied.
C12_MemorySessionIdStaysUnique ==
  /\ \A i, j \in 1..Len(store.sessions) :
       (i # j /\ store.sessions[i].memory_session_id # Null)
         => store.sessions[i].memory_session_id # store.sessions[j].memory_session_id
  /\ \A d \in DocPool :
       (d.kind = "session" /\ ConflictingRows(store, d.payload) # {}) =>
         LET existing == getSessionByContentSessionId(store, d.payload.content_session_id)
             after == upsertSession(store, d.payload).db
             row == getSessionByContentSessionId(after, d.payload.content_session_id)
         IN /\ \A k \in ConflictingRows(store, d.payload) :
                 after.sessions[k] = store.sessions[k]
            /\ row # 0
            /\ after.sessions[row].memory_session_id =
                 (IF existing = 0 THEN Null ELSE store.sessions[existing].memory_session_id)
  /\ imports >= 1 =>
       \A i \in SessionDocuments :
         (SessionDocuments = {i} /\ ConflictingRows(storeBefore, batch[i].payload) # {}) =>
           /\ \A k \in ConflictingRows(storeBefore, batch[i].payload) :
                store.sessions[k] = storeBefore.sessions[k]
           /\ SessionRows(store, batch[i].payload.content_session_id) # {}
           /\ \A j \in 1..Len(batch) : AppliedAfterSessions(store, batch[j])

\* the session document of c2 carried m1, which the row of c1 binds: c2 has got
\* its row with no memory_session_id, and the prompt document behind it its row
C12_Witness ==
  /\ imports = 1
  /\ Len(batch) = 2
  /\ batch[1].kind = "session" /\ batch[1].payload.content_session_id = "c2"
  /\ batch[1].payload.memory_session_id = "m1"
  /\ batch[2].kind = "prompt" /\ batch[2].payload.content_session_id = "c2"
  /\ SessionRows(storeBefore, "c2") = {}
  /\ ConflictingRows(storeBefore, batch[1].payload) # {}
  /\ \E k \in SessionRows(store, "c2") : store.sessions[k].memory_session_id = Null
  /\ PromptRows(store, "c2", 1) # {}
  /\ importCount = 2

(***************************************************************************)
(* Bootstrap, pull and the event-driven pushes.                            *)
(***************************************************************************)
\* the ids of the documents of the rows a store had when it had the row counts
RowDocumentIds(db, rows) ==
  {buildSessionDocument(db.sessions[i], NullNum).id : i \in 1..rows.sessions}
  \cup {buildPromptDocument(promptRow(db, i)).id : i \in 1..rows.prompts}
  \cup {buildObservationDocument(db.observations[i]).id : i \in 1..rows.observations}
  \cup {buildSummaryDocument(db.summaries[i]).id : i \in 1..rows.summaries}

SucceededStartups == {s \in SucceededTasks : tasks[s].kind = "startup"}

\* C13: after a startup cycle that succeeded, having found bootstrapComplete
\* false, the remote store holds a document for every session, prompt,
\* observation and summary row the local store had when the cycle started,
\* bootstrapComplete is persisted as true, and the persisted lastLocalPushEpoch
\* is at least the updatedAtEpoch of every document pushed.
C13_BootstrapPushesEveryRow ==
  \A s \in SucceededStartups :
    ~CursorsBefore(s).bootstrapComplete =>
      /\ \A id \in RowDocumentIds(store, tasks[s].rowsBefore) : \E d \in remote : d.id = id
      /\ CursorsAfter.bootstrapComplete
      /\ \A d \in tasks[s].pushed : CursorsAfter.lastLocalPushEpoch >= d.updatedAtEpoch

\* a startup cycle has succeeded that started with a prompt and an observation
\* or a summary in the store
C13_Witness ==
  \E s \in SucceededStartups :
    /\ ~CursorsBefore(s).bootstrapComplete
    /\ tasks[s].rowsBefore.prompts >= 1
    /\ tasks[s].rowsBefore.observations + tasks[s].rowsBefore.summaries >= 1
    /\ Cardinality(tasks[s].pushed) >= 3

\* the row of a fetched document: the session row of its content_session_id,
\* the prompt row of its (content_session_id, prompt_number), the observation
\* or summary row of its dedup key
HasRow(db, document) ==
  LET payload == document.payload
  IN CASE document.kind = "session" -> SessionRows(db, payload.content_session_id) # {}
       [] document.kind = "prompt" ->
            PromptRows(db, payload.content_session_id, payload.prompt_number) # {}
       [] document.kind = "observation" ->
            \E i \in 1..Len(db.observations) :
              /\ db.observations[i].memory_session_id = payload.memory_session_id
              /\ db.observations[i].created_at_epoch = payload.created_at_epoch
              /\ db.observations[i].type = payload.type
              /\ CoalesceStr(db.observations[i].title, "") = CoalesceStr(payload.title, "")
              /\ CoalesceStr(db.observations[i].narrative, "")
                   = CoalesceStr(payload.narrative, "")
       [] document.kind = "summary" ->
            \E i \in 1..Len(db.summaries) :
              /\ db.summaries[i].memory_session_id = payload.memory_session_id
              /\ db.summaries[i].created_at_epoch = payload.created_at_epoch
              /\ CoalesceNum(db.summaries[i].prompt_number, -1)
                   = CoalesceNum(payload.prompt_number, -1)

\* the owning session of a fetched document is in the store
OwnerExists(db, document) ==
  CASE document.kind = "session" -> TRUE
    [] document.kind = "prompt" ->
         SessionRows(db, document.payload.content_session_id) # {}
    [] OTHER -> getSessionByMemorySessionId(db, document.payload.memory_session_id) # 0

\* C14: after the pull of a cycle every fetched document is represented in
\* the local store: a fetched session has a session row of its
\* content_session_id, and a fetched prompt, observation or summary whose
\* owning session the store has once the sessions of the batch are applied has
\* a row matching its key.
C14_FetchedDocumentsAreImported ==
  imports >= 1 =>
    \A i \in 1..Len(batch) : OwnerExists(store, batch[i]) => HasRow(store, batch[i])

\* the fetch returned an observation of m2 before the session that binds m2,
\* the store had neither, and it has both now
C14_Witness ==
  /\ imports = 1
  /\ Len(batch) = 2
  /\ batch[1].kind = "observation" /\ batch[1].payload.memory_session_id = "m2"
  /\ batch[2].kind = "session" /\ batch[2].payload.memory_session_id = "m2"
  /\ getSessionByMemorySessionId(storeBefore, "m2") = 0
  /\ ~HasRow(storeBefore, batch[1])
  /\ HasRow(store, batch[1]) /\ HasRow(store, batch[2])

IsEvent(kind) == kind \in {"prompt", "observation", "summary"}

\* the row an event-driven task pushes
EventRow(db, task) ==
  CASE task.kind = "prompt" -> db.prompts[task.arg]
    [] task.kind = "observation" -> db.observations[task.arg]
    [] task.kind = "summary" -> db.summaries[task.arg]

\* the position of the session that owns the row of an event-driven task, 0 if none
EventOwner(db, task) ==
  IF task.kind = "prompt"
  THEN getSessionByContentSessionId(db, EventRow(db, task).content_session_id)
  ELSE getSessionByMemorySessionId(db, EventRow(db, task).memory_session_id)

\* the session document an event-driven task has to push with its row
OwnerDocument(db, task) ==
  [id |-> <<"session", db.sessions[EventOwner(db, task)].content_session_id>>,
   kind |-> "session",
   sortEpoch |-> db.sessions[EventOwner(db, task)].started_at_epoch,
   updatedAtEpoch |-> EventRow(db, task).created_at_epoch,
   payload |-> db.sessions[EventOwner(db, task)]]

\* C15: when an event-driven task collects the documents of a row whose owning
\* session the store has, the batch holds the session document with the
\* session's fields as they are then and with the row's created_at_epoch as
\* updatedAtEpoch; and when the push of an event-driven task succeeds, the
\* remote store holds every document of the batch as pushed, the session
\* document among them.
C15_EventPushCarriesSession ==
  [][\A s \in DOMAIN tasks :
       /\ (/\ tasks[s].status = "queued" /\ IsEvent(tasks[s].kind)
           /\ s \in DOMAIN tasks' /\ tasks'[s].pc = "eventPush"
           /\ EventOwner(store, tasks[s]) # 0)
            => OwnerDocument(store, tasks[s]) \in tasks'[s].documents
       /\ (/\ tasks[s].pc = "eventPush"
           /\ s \in DOMAIN tasks' /\ tasks'[s].pc = "return")
            => \A d \in tasks[s].documents : d \in remote']_vars

\* the push of an observation has succeeded and the remote session document
\* carries the memory_session_id assigned after the push of the prompt
C15_Witness ==
  \E s \in SucceededTasks :
    /\ tasks[s].kind = "observation"
    /\ \E d \in tasks[s].pushed : d.kind = "session" /\ d.payload.memory_session_id = "m1"
    /\ \E d \in remote :
         /\ d.id = <<"session", "c1">>
         /\ d.payload.memory_session_id = "m1"
         /\ d.updatedAtEpoch = store.observations[tasks[s].arg].created_at_epoch
    /\ \E d \in remote : d.kind = "prompt"

\* the record a document stands for: the session, the prompt of a session, the
\* content of an observation or a summary
RecordOf(document) ==
  CASE document.kind = "session" -> <<"session", document.payload.content_session_id>>
    [] document.kind = "prompt" ->
         <<"prompt", document.payload.content_session_id, document.payload.prompt_number>>
    [] OTHER -> <<document.kind, document.payload>>

Pushing == {s \in Running : tasks[s].pc \in {"bootstrapPush", "incrementalPush", "eventPush"}}

\* C16: pushing rows again adds nothing: the remote store holds one document
\* per record, whether a row was pushed by its event-driven task, by the
\* bootstrap or by an interval cycle, or by several of them; a push of a batch
\* followed by a push of the same batch leaves the remote store as the first
\* push left it; and a push of documents the remote store holds leaves it as
\* it is.
C16_RepeatedPushAddsNothing ==
  /\ \A d, e \in remote : RecordOf(d) = RecordOf(e) => d = e
  /\ \A s \in Pushing :
       LET once == upsertDocuments(remote, tasks[s].documents)
       IN /\ upsertDocuments(once, tasks[s].documents) = once
          /\ tasks[s].documents \subseteq remote => once = remote
          /\ Cardinality({RecordOf(d) : d \in once}) = Cardinality(once)

\* a startup cycle has pushed, with the bootstrap, a prompt that the prompt's
\* own task had pushed before the cycle started
C16_Witness ==
  \E s \in SucceededStartups :
    /\ ~CursorsBefore(s).bootstrapComplete
    /\ CursorsBefore(s).lastLocalPushEpoch > 0
    /\ tasks[s].rowsBefore.prompts >= 1
    /\ \E d \in tasks[s].pushed : d.kind = "prompt"
    /\ failures = 0

\* the step is one of the body of the task of slot s
BodyStep(s) == s \in DOMAIN tasks /\ s \in DOMAIN tasks' /\ tasks'[s].pc # tasks[s].pc

\* C17: an event-driven task runs no pull: no step of its body awaits
\* fetchDocumentsUpdatedSince or fetches a document, none writes the local
\* store, and every step leaves the state file as it is but for a
\* lastLocalPushEpoch that it may raise (bootstrapComplete and lastPullEpoch
\* are as before).
C17_EventTasksNeverPull ==
  [][\A s \in Slots :
       (BodyStep(s) /\ IsEvent(tasks[s].kind)) =>
         /\ tasks'[s].pc \in {"eventPush", "return", "throw"}
         /\ tasks'[s].fetched = {}
         /\ store' = store
         /\ loadTargetState(stateFile').bootstrapComplete
              = loadTargetState(stateFile).bootstrapComplete
         /\ loadTargetState(stateFile').lastPullEpoch = loadTargetState(stateFile).lastPullEpoch
         /\ loadTargetState(stateFile').lastLocalPushEpoch
              >= loadTargetState(stateFile).lastLocalPushEpoch
         /\ stateFile'.version = stateFile.version
         /\ DOMAIN stateFile'.targets \subseteq DOMAIN stateFile.targets \cup {targetFingerprint}]_vars

\* an event-driven task has raised lastLocalPushEpoch after a cycle had set
\* bootstrapComplete and raised lastPullEpoch
C17_Witness ==
  \E s \in SucceededTasks :
    /\ IsEvent(tasks[s].kind)
    /\ CursorsAfter.lastLocalPushEpoch > CursorsBefore(s).lastLocalPushEpoch
    /\ CursorsAfter.bootstrapComplete
    /\ CursorsAfter.lastPullEpoch > 0
    /\ \E d \in remote : d.updatedAtEpoch > CursorsAfter.lastPullEpoch

(***************************************************************************)
(* Errors and shutdown.                                                    *)
(***************************************************************************)
\* the outcome of a task whose body has returned or thrown
Outcome(s) == IF tasks[s].pc = "return" THEN Fulfilled ELSE Rejected

CloseTasks == {s \in DOMAIN tasks : tasks[s].kind = "close"}

\* C19: close() drains the queue before it closes the backend: the close task
\* calls backend.close only when every task submitted before it has settled,
\* and its promise settles only when backend.close has run and has answered.
C19_CloseDrainsQueue ==
  \A s \in CloseTasks :
    /\ s \notin Queued => SubmittedBefore(s) = {}
    /\ tasks[s].pc = "close" => ~containerRef
    /\ s \in Finished => ~containerRef /\ tasks[s].pc = "return"

\* backend.close has run after a cycle and a push that were submitted before
\* close(), and a task submitted after close() waits behind the close task
C19_Witness ==
  \E s \in CloseTasks :
    /\ s \in Finished
    /\ ~containerRef
    /\ CursorsAfter.bootstrapComplete
    /\ remote # {}
    /\ Len(order) = 2 /\ order[1] = s /\ order[2] \in Queued

\* C20: close() stops the timer: once close() has been called no interval
\* timer is set, so that no interval cycle is submitted any more, also when
\* close() is called while the startup cycle of initialize() is in flight.
C20_CloseStopsTimer == closed => ~intervalRef

(***************************************************************************)
(* Targets, the state file and the settings.                               *)
(***************************************************************************)
\* C21: two configurations that name different targets (endpoint, database or
\* container differ), given as endpoint and key or as a connection string,
\* get different fingerprints: the engine run with the second starts from
\* zeroed cursors and leaves the entry of the first as it is.
C21_ChangedTargetStartsFromZero ==
  (Len(configs) = 2 /\ TargetOf(configs[1]) # TargetOf(configs[2])) =>
    /\ createTargetFingerprint(configs[1]) # createTargetFingerprint(configs[2])
    /\ loadTargetStateFor(stateFile, createTargetFingerprint(configs[2])).lastPullEpoch
         = EpochStep
    /\ loadTargetStateFor(stateFile, createTargetFingerprint(configs[1])).lastPullEpoch
         = EpochStep

\* the state file holds the entries of a valid file
ValidFile(file) == file.form = "object" /\ file.version = STATE_VERSION

\* C22: a save of the state of one target leaves the entries of every other
\* target of a valid state file as they are: a save of the engine changes the
\* entry of its own fingerprint at most, and a save of the engine bound to the
\* other target the entry of that one, over the cycles of both.
C22_SaveLeavesOtherTargets ==
  [][ValidFile(stateFile) =>
       /\ ValidFile(stateFile')
       /\ \A f \in DOMAIN stateFile.targets :
            /\ f \in DOMAIN stateFile'.targets
            /\ stateFile'.targets[f] # stateFile.targets[f]
                 => f = (IF tasks' # tasks THEN targetFingerprint ELSE otherFingerprint)]_vars

\* the engine has finished a cycle and the engine of the other target has saved
\* since: the file holds the cursors of both
C22_Witness ==
  /\ ValidFile(stateFile)
  /\ DOMAIN stateFile.targets = {targetFingerprint, otherFingerprint}
  /\ stateFile.targets[otherFingerprint].lastPullEpoch >= 2 * EpochStep
  /\ \E s \in SucceededTasks :
       /\ IsCycle(tasks[s].kind)
       /\ otherFingerprint \in DOMAIN tasks[s].fileBefore.targets
       /\ tasks[s].pushed # {}

\* a file loadStateFile does not take the entries of
Damaged(file) == file.form # "object" \/ file.version # STATE_VERSION

\* the tasks that began on a damaged state file
BeganOnDamaged == {s \in DOMAIN tasks : tasks[s].status # "queued" /\ Damaged(tasks[s].fileBefore)}

\* C23: a state file that is missing, unreadable, unparsable or of another
\* version loads as the zeroed state for every target; a task that began on
\* such a file fails only when a backend operation failed; the first save of
\* the task leaves a valid version-1 file, and a cycle that began on it and
\* succeeded has run as a first run: it has pushed the document of every row
\* and persisted bootstrapComplete.
C23_DamagedFileIsFirstRun ==
  /\ Damaged(stateFile) =>
       /\ loadTargetState(stateFile) = ZeroState
       /\ loadTargetStateFor(stateFile, otherFingerprint) = ZeroState
  /\ \A s \in BeganOnDamaged :
       /\ loadTargetState(tasks[s].fileBefore) = ZeroState
       /\ tasks[s].pc = "throw" => failures > 0
       /\ tasks[s].pushed # {} => ValidFile(stateFile)
       /\ s \in SucceededTasks /\ IsCycle(tasks[s].kind) =>
            /\ ValidFile(stateFile)
            /\ targetFingerprint \in DOMAIN stateFile.targets
            /\ CursorsAfter.bootstrapComplete
            /\ \A id \in RowDocumentIds(store, tasks[s].rowsBefore) : \E d \in remote : d.id = id

\* the startup cycle began on a file of another version that holds cursors for
\* the target, and succeeded
C23_Witness ==
  \E s \in SucceededStartups :
    /\ tasks[s].fileBefore.form = "object"
    /\ tasks[s].fileBefore.version # STATE_VERSION
    /\ targetFingerprint \in DOMAIN tasks[s].fileBefore.targets
    /\ tasks[s].fileBefore.targets[targetFingerprint].bootstrapComplete
    /\ Cardinality(tasks[s].pushed) >= 2
    /\ ValidFile(stateFile)

\* the text is a positive integer: digits only, of a value above zero
IsPositiveInteger(value) ==
  value.set /\ ~parseIntWhole(value.text).nan /\ parseIntWhole(value.text).value > 0

\* the provider of the settings is one the engine knows; unset, it is the default
RecognizedProvider(settings) ==
  settings.CLAUDE_MEM_REMOTE_DB_PROVIDER \in {Null, "", "azure-cosmos"}

\* the settings hold the credentials the backend needs
HasCredentials(settings) ==
  \/ settings.CLAUDE_MEM_AZURE_COSMOS_CONNECTION_STRING # ""
  \/ settings.CLAUDE_MEM_AZURE_COSMOS_ENDPOINT # "" /\ settings.CLAUDE_MEM_AZURE_COSMOS_KEY # ""

\* C24: createFromSettings returns no engine when the enabled flag is not
\* "true", the provider is not recognized or the backend cannot be constructed
\* for want of credentials; otherwise it returns an engine whose interval is
\* the configured value when that is a positive integer and 30000 otherwise.
C24_SettingsGiveEngineOrDisabled ==
  \A i \in 1..Len(created) :
    LET settings == created[i].settings
        result == created[i].result
        interval == settings.CLAUDE_MEM_REMOTE_DB_SYNC_INTERVAL_MS
    IN IF \/ settings.CLAUDE_MEM_REMOTE_DB_ENABLED # "true"
          \/ ~RecognizedProvider(settings)
          \/ ~HasCredentials(settings)
       THEN ~result.engine
       ELSE /\ result.engine
            /\ result.syncIntervalMs =
                 (IF IsPositiveInteger(interval) THEN parseIntWhole(interval.text).value
                  ELSE 30000)

(***************************************************************************)
(* The importer: order of application, skipped documents.                  *)
(***************************************************************************)
\* the batch in the opposite order
Reversed(documents) == [i \in 1..Len(documents) |-> documents[Len(documents) + 1 - i]]

\* the session document owns the document: it has the content_session_id of
\* the prompt, or binds the memory_session_id of the observation or summary
Owns(session, document) ==
  IF document.kind = "prompt"
  THEN session.payload.content_session_id = document.payload.content_session_id
  ELSE /\ session.payload.memory_session_id # Null
       /\ session.payload.memory_session_id = document.payload.memory_session_id

\* the documents of the batch are of different kinds
KindsDiffer(documents) ==
  \A i, j \in 1..Len(documents) : i # j => documents[i].kind # documents[j].kind

\* C25: the importer applies a batch in the order sessions, prompts,
\* observations, summaries, whatever the order of the fetch: a batch of
\* documents of different kinds gives the same store and count in either order,
\* and a prompt, observation or summary that precedes its session document in
\* the batch has its row after the import, unless the memory_session_id of the
\* session document is bound to another session.
C25_BatchAppliedInKindOrder ==
  imports >= 1 =>
    /\ KindsDiffer(batch) =>
         importRemoteDocuments(storeBefore, Reversed(batch))
           = [db |-> store, importedCount |-> importCount]
    /\ \A i, j \in 1..Len(batch) :
         (/\ i < j
          /\ batch[i].kind # "session" /\ batch[j].kind = "session"
          /\ Owns(batch[j], batch[i])
          /\ ConflictingRows(storeBefore, batch[j].payload) = {})
           => HasRow(store, batch[i])

\* the fetch returned a prompt of session c2 before the session document of c2,
\* the store had no row of c2, and both are imported
C25_Witness ==
  /\ imports = 1
  /\ Len(batch) = 2
  /\ batch[1].kind = "prompt" /\ batch[1].payload.content_session_id = "c2"
  /\ batch[2].kind = "session" /\ batch[2].payload.content_session_id = "c2"
  /\ SessionRows(storeBefore, "c2") = {}
  /\ importCount = 2
  /\ PromptRows(store, "c2", batch[1].payload.prompt_number) # {}

\* the documents of the last batch whose owning session the store lacks once
\* the sessions of the batch are applied
Orphans == {i \in 1..Len(batch) : ~OwnerExists(store, batch[i])}

\* the last batch without them
WithoutOrphans ==
  LET Keep(d) == OwnerExists(store, d) IN SelectSeq(batch, Keep)

\* the content_session_ids of the session rows
SessionIds(db) == {db.sessions[i].content_session_id : i \in 1..Len(db.sessions)}

\* C26: a prompt whose content_session_id has no session row, or an
\* observation or summary whose memory_session_id no session row is bound to,
\* is skipped: the import gives the store and the count it gives for the batch
\* without these documents, none of them gets a row, no session row is made
\* for them, and the count is at most the number of the other documents.
C26_OrphansAreSkipped ==
  imports >= 1 =>
    /\ importRemoteDocuments(storeBefore, WithoutOrphans)
         = [db |-> store, importedCount |-> importCount]
    /\ importCount <= Len(batch) - Cardinality(Orphans)
    /\ \A i \in Orphans : HasRow(store, batch[i]) => HasRow(storeBefore, batch[i])
    /\ SessionIds(store)
         = SessionIds(storeBefore)
           \cup {batch[i].payload.content_session_id : i \in SessionDocuments}
    /\ \A i \in 1..Len(store.prompts) :
         SessionRows(store, store.prompts[i].content_session_id) # {}
    /\ Len(store.observations) - Len(storeBefore.observations)
         <= Len(OfKind(WithoutOrphans, "observation"))
    /\ Len(store.summaries) - Len(storeBefore.summaries)
         <= Len(OfKind(WithoutOrphans, "summary"))

\* the batch held an observation of m2, which no session is bound to, and the
\* prompt of a session of the store: the prompt alone is imported
C26_Witness ==
  /\ imports = 1
  /\ Len(batch) = 2
  /\ \E i \in Orphans : batch[i].kind = "observation"
  /\ \E i \in 1..Len(batch) : batch[i].kind = "prompt" /\ ~HasRow(storeBefore, batch[i])
                                 /\ HasRow(store, batch[i])
  /\ importCount = 1
  /\ store.observations = storeBefore.observations
  /\ store.sessions = storeBefore.sessions

(***************************************************************************)
(* The pull cursor and the phases of a cycle.                              *)
(***************************************************************************)
SucceededCycles == {s \in SucceededTasks : IsCycle(tasks[s].kind)}

\* C27: after a cycle that succeeded the persisted lastPullEpoch is the larger
\* of its value before the cycle and the largest updatedAtEpoch of the
\* documents the cycle fetched, whether the importer inserted them, found them
\* present or skipped them; with nothing fetched it is as before.
C27_PullCursorFollowsFetched ==
  \A s \in SucceededCycles :
    CursorsAfter.lastPullEpoch
      = Max(CursorsBefore(s).lastPullEpoch, getMaxUpdatedEpoch(tasks[s].fetched))

\* a cycle has fetched only documents the importer skipped or found present,
\* the newest of them a skipped one, and the cursor is at that one
C27_Witness ==
  \E s \in SucceededCycles :
    /\ tasks[s].rowsBefore = RowCounts(store)
    /\ \E d \in tasks[s].fetched :
         /\ ~HasRow(store, d)
         /\ d.updatedAtEpoch > CursorsBefore(s).lastPullEpoch
         /\ CursorsAfter.lastPullEpoch = d.updatedAtEpoch
    /\ \E d \in tasks[s].fetched : d.kind = "prompt" /\ HasRow(store, d)

\* the phases of a cycle in the order of performSynchronization
PhaseRank(pc) ==
  CASE pc = "queued" -> 0 [] pc = "initialize" -> 1 [] pc = "bootstrapPush" -> 2
    [] pc = "incrementalPush" -> 3 [] pc = "fetch" -> 4 [] OTHER -> 5

\* the cycle of slot s takes a step
CycleStep(s) ==
  /\ s \in DOMAIN tasks'
  /\ IsCycle(tasks[s].kind)
  /\ tasks'[s].pc # tasks[s].pc

\* the step takes the cycle to a later phase; it is alone in running; the
\* bootstrap push belongs to a startup cycle that found bootstrapComplete
\* false, and the cycle returns from the pull only
PhasesInOrder(s) ==
  /\ PhaseRank(tasks'[s].pc) > PhaseRank(tasks[s].pc)
  /\ \A t \in DOMAIN tasks \ {s} :
       tasks[t].status = "queued" \/ tasks[t].pc \in {"return", "throw"}
  /\ tasks'[s].pc = "bootstrapPush" =>
       tasks[s].kind = "startup" /\ ~loadTargetState(stateFile).bootstrapComplete
  /\ tasks'[s].pc = "return" => tasks[s].pc = "fetch"
  /\ (tasks[s].pc = "fetch" /\ tasks'[s].pc = "return") =>
       loadTargetState(stateFile') = tasks'[s].state

\* the state file is written by the step that ends the pull, and by no other
PersistedAfterPullOnly(s) ==
  tasks[s].pc # "fetch" => stateFile' = stateFile

\* a step before the pull leaves the persisted bootstrapComplete and
\* lastPullEpoch as they are; a push that succeeded persists lastLocalPushEpoch
\* raised over its batch, and every other step before the pull writes nothing
PushCursorPersistedEarly(s) ==
  tasks[s].pc # "fetch" =>
    /\ loadTargetState(stateFile').bootstrapComplete
         = loadTargetState(stateFile).bootstrapComplete
    /\ loadTargetState(stateFile').lastPullEpoch = loadTargetState(stateFile).lastPullEpoch
    /\ IF tasks[s].pc \in {"bootstrapPush", "incrementalPush"} /\ tasks'[s].pc # "throw"
       THEN stateFile' = pushDocumentsSave(stateFile, tasks[s].documents)
       ELSE stateFile' = stateFile

\* C28 as the specification states it: the phases of a cycle run in the order
\* initialize, bootstrap push, incremental push, pull, state persist, and the
\* target state is persisted after the pull and never before it.
C28_StatePersistedAfterPullOnly ==
  [][\A s \in DOMAIN tasks :
       CycleStep(s) => PhasesInOrder(s) /\ PersistedAfterPullOnly(s)]_vars

\* C28: the phases of a cycle run in the order initialize, bootstrap push,
\* incremental push, pull, state persist, one after the other; the target
\* state with bootstrapComplete and lastPullEpoch is persisted after the pull
\* and never before it, while each push that succeeded persists
\* lastLocalPushEpoch at once, before the pull.
C28_PhasesInOrderPushCursorEarly ==
  [][\A s \in DOMAIN tasks :
       CycleStep(s) => PhasesInOrder(s) /\ PushCursorPersistedEarly(s)]_vars

\* a startup cycle is in its pull, having pushed the bootstrap and an
\* incremental batch: the file holds the raised push cursor and not yet
\* bootstrapComplete
C28_Witness ==
  \E s \in DOMAIN tasks :
    /\ tasks[s].kind = "startup"
    /\ tasks[s].status = "running"
    /\ tasks[s].pc = "fetch"
    /\ tasks[s].pushed # {}
    /\ tasks[s].state.bootstrapComplete
    /\ ~loadTargetState(stateFile).bootstrapComplete
    /\ loadTargetState(stateFile).lastLocalPushEpoch
         > loadTargetState(tasks[s].fileBefore).lastLocalPushEpoch

(***************************************************************************)
(* The merge rules of sessions.                                            *)
(***************************************************************************)
\* the store after the documents are imported one after the other
RECURSIVE ImportedInTurn(_, _)
ImportedInTurn(db, documents) ==
  IF documents = <<>> THEN db
  ELSE ImportedInTurn(importRemoteDocuments(db, <<Head(documents)>>).db, Tail(documents))

\* C29: the merge of session documents is commutative: two documents of one
\* content_session_id imported in either order give the same session rows.
C29_SessionMergeCommutes ==
  imports = Len(batch) =>
    store.sessions = ImportedInTurn(storeBefore, Reversed(batch)).sessions

\* the priority of a status in the order active < failed < completed
StatusPriority(status) ==
  CASE status = "active" -> 0 [] status = "failed" -> 1 [] status = "completed" -> 2

\* C30: the import of a session document never lowers the status of a session
\* row in the order active < failed < completed, and the row takes the status
\* of the document exactly when the priority of that status is at least the
\* priority of the row's.
C30_StatusNeverLowers ==
  [][\A i \in 1..Len(store.sessions) :
       LET current == store.sessions[i].status
           incoming == batch[imports + 1].payload.status
       IN /\ i <= Len(store'.sessions)
          /\ StatusPriority(store'.sessions[i].status) >= StatusPriority(current)
          /\ store'.sessions[i].status
               = (IF StatusPriority(incoming) >= StatusPriority(current)
                  THEN incoming ELSE current)]_vars

\* the session was active, a document has completed it, and a later document
\* that says failed has left it completed
C30_Witness ==
  /\ imports = 2
  /\ Len(storeBefore.sessions) = 1 /\ storeBefore.sessions[1].status = "active"
  /\ batch[1].payload.status = "completed"
  /\ batch[2].payload.status = "failed"
  /\ Len(store.sessions) = 1 /\ store.sessions[1].status = "completed"

(***************************************************************************)
(* The bootstrap, the cursors and the rows over the cycles.                *)
(***************************************************************************)
\* the cycles that are in their bootstrap push
Bootstrapping == {s \in DOMAIN tasks : tasks[s].pc = "bootstrapPush"}

\* C31: the bootstrap is run once per target: a cycle is in its bootstrap push
\* only if it is a startup cycle and the persisted bootstrapComplete is false,
\* in the file as it was when the cycle began and as it is now; an interval
\* cycle is never in it; after a startup cycle that succeeded the persisted
\* bootstrapComplete is true, and no step makes it false again.
C31_BootstrapRunsOnce ==
  [][/\ \A s \in Bootstrapping :
          /\ tasks[s].kind = "startup"
          /\ ~CursorsBefore(s).bootstrapComplete
          /\ ~CursorsAfter.bootstrapComplete
     /\ \A s \in SucceededStartups : CursorsAfter.bootstrapComplete
     /\ CursorsAfter.bootstrapComplete => loadTargetState(stateFile').bootstrapComplete]_vars

\* a startup cycle that found bootstrapComplete true in a valid file has
\* succeeded, having pushed only rows inside the overlap window or none
C31_Witness ==
  \E s \in SucceededStartups :
    /\ ValidFile(tasks[s].fileBefore)
    /\ CursorsBefore(s).bootstrapComplete
    /\ \A d \in tasks[s].pushed :
         d.updatedAtEpoch >= CursorsBefore(s).lastLocalPushEpoch - LOCAL_INCREMENTAL_OVERLAP_MS
    /\ CursorsAfter.bootstrapComplete

\* the cycles whose import has thrown
ImportFailed ==
  {s \in DOMAIN tasks : IsCycle(tasks[s].kind) /\ tasks[s].pc = "throw"
                         /\ tasks[s].fetched # {}}

\* C32: the import of a batch is all or nothing: when the upsert of a document
\* throws, the step leaves the local store and the state file as they were
\* before the import and the cycle has thrown; the persisted lastPullEpoch is
\* the one of before the cycle.
C32_FailedImportLeavesNoRow ==
  [][/\ \A s \in DOMAIN tasks :
          (/\ s \in DOMAIN tasks'
           /\ IsCycle(tasks[s].kind)
           /\ tasks[s].pc = "fetch" /\ tasks'[s].pc = "throw")
            => /\ store' = store
               /\ stateFile' = stateFile
               /\ tasks'[s].state.lastPullEpoch = tasks[s].state.lastPullEpoch
     /\ \A s \in ImportFailed : CursorsAfter.lastPullEpoch = CursorsBefore(s).lastPullEpoch]_vars

\* the import of a cycle has thrown after the session document of the batch,
\* which has no row, and the batch held documents newer than the cursor
C32_Witness ==
  \E s \in ImportFailed :
    /\ Cardinality(tasks[s].fetched) >= 2
    /\ \E d \in tasks[s].fetched : d.kind = "session" /\ ~HasRow(store, d)
    /\ \E d \in tasks[s].fetched : d.updatedAtEpoch > CursorsAfter.lastPullEpoch

\* rows is a prefix of more: every row is where and as it was
IsPrefix(rows, more) == Len(rows) <= Len(more) /\ SubSeq(more, 1, Len(rows)) = rows

\* the session rows an import has changed
ChangedSessions(before, after) ==
  {i \in 1..Len(before.sessions) : after.sessions[i] # before.sessions[i]}

\* the rows an import has inserted
InsertedRows(before, after) ==
  (Len(after.sessions) - Len(before.sessions)) + (Len(after.prompts) - Len(before.prompts))
    + (Len(after.observations) - Len(before.observations))
    + (Len(after.summaries) - Len(before.summaries))

\* C33: an import deletes no row and leaves every prompt, observation and
\* summary row as it is; it inserts rows and updates session rows, which keep
\* their content_session_id, and it writes a session row only when a field of
\* it changes: the count it returns is the number of rows inserted and of
\* session rows changed.
C33_ImportsOnlyInsertAndMerge ==
  [][/\ IsPrefix(store.prompts, store'.prompts)
     /\ IsPrefix(store.observations, store'.observations)
     /\ IsPrefix(store.summaries, store'.summaries)
     /\ Len(store.sessions) <= Len(store'.sessions)
     /\ \A i \in 1..Len(store.sessions) :
          store'.sessions[i].content_session_id = store.sessions[i].content_session_id
     /\ importCount' = InsertedRows(store, store')
                         + Cardinality(ChangedSessions(store, store'))]_vars

\* an import has changed the row of a session and inserted a row of another
\* table beside the rows the store had
C33_Witness ==
  /\ imports >= 1
  /\ ChangedSessions(storeBefore, store) # {}
  /\ Len(store.sessions) = Len(storeBefore.sessions)
  /\ InsertedRows(storeBefore, store) = 1
  /\ Len(storeBefore.prompts) + Len(storeBefore.observations) >= 1
  /\ importCount = 2

\* C34: the persisted cursors of the target never decrease and the persisted
\* bootstrapComplete never returns to false, over the steps of startup,
\* interval and event-driven tasks, succeeding or failing.
C34_CursorsNeverDecrease ==
  [][/\ loadTargetState(stateFile').lastLocalPushEpoch >= CursorsAfter.lastLocalPushEpoch
     /\ loadTargetState(stateFile').lastPullEpoch >= CursorsAfter.lastPullEpoch
     /\ CursorsAfter.bootstrapComplete => loadTargetState(stateFile').bootstrapComplete]_vars

\* an interval cycle that began on raised cursors has raised both, in a run
\* where a backend operation has failed
C34_Witness ==
  /\ \E s \in SucceededCycles :
       /\ tasks[s].kind = "full"
       /\ CursorsBefore(s).bootstrapComplete
       /\ CursorsBefore(s).lastLocalPushEpoch > 0
       /\ CursorsAfter.lastLocalPushEpoch > CursorsBefore(s).lastLocalPushEpoch
       /\ CursorsAfter.lastPullEpoch > CursorsBefore(s).lastPullEpoch
  /\ failures > 0

\* C35: the updatedAtEpoch of the document the remote stores under an id never
\* decreases: no push replaces a remote document by one with a smaller
\* updatedAtEpoch.
C35_RemoteEpochNeverDecreases ==
  [][\A d \in remote : \A e \in remote' :
        e.id = d.id => e.updatedAtEpoch >= d.updatedAtEpoch]_vars

\* every observation and summary row of db has a memory_session_id that a
\* session row of db is bound to
RowsBound(db) ==
  /\ \A i \in 1..Len(db.observations) :
        getSessionByMemorySessionId(db, db.observations[i].memory_session_id) # 0
  /\ \A i \in 1..Len(db.summaries) :
        getSessionByMemorySessionId(db, db.summaries[i].memory_session_id) # 0

\* the memory_session_ids the observation and summary rows of db refer to
ReferredIds(db) ==
  {db.observations[i].memory_session_id : i \in 1..Len(db.observations)}
    \cup {db.summaries[i].memory_session_id : i \in 1..Len(db.summaries)}

\* C36: an import preserves referential integrity: when every observation and
\* summary row is bound to a local session before an import, every one is
\* after it, for any batch, and every memory_session_id the rows referred to
\* is still the memory_session_id of a session.
C36_ImportKeepsRowsBound ==
  [][RowsBound(store) =>
       /\ RowsBound(store')
       /\ \A m \in ReferredIds(store) : getSessionByMemorySessionId(store', m) # 0]_vars

\* the rows of db that hold the payload of an observation or summary document
PayloadRows(db, document) ==
  IF document.kind = "observation"
  THEN {i \in 1..Len(db.observations) : db.observations[i] = document.payload}
  ELSE {i \in 1..Len(db.summaries) : db.summaries[i] = document.payload}

\* C37: two fetched observation (or summary) documents of different ids whose
\* owning sessions are in the store each have a row of their own after the
\* import.
C37_DistinctDocumentsKeepDistinctRows ==
  (imports >= 1 /\ \A k \in 1..Len(batch) : OwnerExists(store, batch[k]))
    => \A k \in 1..Len(batch) : PayloadRows(store, batch[k]) # {}

\* the document was built from a row the store holds now: a session document
\* carries the session row under any updatedAtEpoch, the others are the
\* documents of their rows
BuiltFromRow(db, d) ==
  CASE d.kind = "session" ->
         \E i \in 1..Len(db.sessions) :
           d = buildSessionDocument(db.sessions[i], d.updatedAtEpoch)
    [] d.kind = "prompt" ->
         \E i \in 1..Len(db.prompts) : d = buildPromptDocument(promptRow(db, i))
    [] d.kind = "observation" ->
         \E i \in 1..Len(db.observations) : d = buildObservationDocument(db.observations[i])
    [] d.kind = "summary" ->
         \E i \in 1..Len(db.summaries) : d = buildSummaryDocument(db.summaries[i])

OwnRemote == \A d \in remote : BuiltFromRow(store, d)

\* the step is the pull of the cycle of slot s
PullStep(s) ==
  /\ s \in DOMAIN tasks /\ s \in DOMAIN tasks'
  /\ tasks[s].pc = "fetch" /\ tasks'[s].pc = "return"

\* C38: the pull of a cycle whose remote holds only documents built from the
\* rows the store holds writes no row: the import counts 0 for whatever the
\* fetch returns and the store is left as it was.
C38_PullOfOwnPushesWritesNothing ==
  [][\A s \in Slots :
       PullStep(s) /\ OwnRemote =>
         /\ store' = store
         /\ LET since == Max(0, tasks[s].state.lastPullEpoch - REMOTE_INCREMENTAL_OVERLAP_MS)
            IN \A documents \in fetchDocumentsUpdatedSince(remote, since) :
                 importRemoteDocuments(store, documents).importedCount = 0]_vars

\* a cycle has fetched a session, a prompt and an observation or a summary
\* that it or an earlier task had pushed from the rows of the store
C38_Witness ==
  /\ OwnRemote
  /\ \E s \in SucceededCycles :
       /\ \E d \in tasks[s].fetched : d.kind = "session"
       /\ \E d \in tasks[s].fetched : d.kind = "prompt"
       /\ \E d \in tasks[s].fetched : d.kind \in {"observation", "summary"}
       /\ tasks[s].fetched \subseteq remote

====
